---- MODULE Spec2Model ----
(***************************************************************************)
(* A model of the Skylit Logistics backend: the inventory engine of       *)
(* app/inventory_service.py (sellers, products, the transaction ledger),  *)
(* the fast-path classifier of app/intent_parser.py, the model-backed     *)
(* parser of app/gemini_service.py and the webhook handlers of            *)
(* app/main.py.  Every handler is one atomic action; the requests of this *)
(* specification are served one after the other.                         *)
(***************************************************************************)
EXTENDS Integers, Sequences, FiniteSets, TLC

VARIABLES
    sellers,        \* table "sellers": row i is the Seller with id i
    products,       \* table "products": row i is the Product with id i
    transactions,   \* table "transactions", in insertion order
    conversations,  \* table "conversations", in insertion order
    call,           \* the request served last and its arguments
    result,         \* what that request returned and did
    sessions,       \* the calls in flight, each with its own database session
    manager         \* the ConnectionManager and the broadcast it is running

vars == <<sellers, products, transactions, conversations, call, result, sessions, manager>>

-----------------------------------------------------------------------------
(* Bounds of the model.                                                    *)

MaxStock == 2       \* |current_stock| never exceeds this
MaxTx == 2          \* rows of the transaction ledger
MaxConv == 2        \* rows of the conversation log
NumSessions == 2    \* calls of the stock functions in flight at once
MaxSessionTx == 2   \* ledger rows at which no further call begins
NumListeners == 2   \* dashboards that ever connect

-----------------------------------------------------------------------------
(* Text.  A message is the sequence of its characters.                     *)

None == <<"None">>                  \* Python's None

UpperCase == <<"A", "B", "C", "D", "E", "F", "G", "H", "I", "J", "K", "L", "M",
               "N", "O", "P", "Q", "R", "S", "T", "U", "V", "W", "X", "Y", "Z">>
LowerCase == <<"a", "b", "c", "d", "e", "f", "g", "h", "i", "j", "k", "l", "m",
               "n", "o", "p", "q", "r", "s", "t", "u", "v", "w", "x", "y", "z">>
DigitChars == <<"0", "1", "2", "3", "4", "5", "6", "7", "8", "9">>

IsUpper(c) == \E k \in 1..26 : UpperCase[k] = c
IsLower(c) == \E k \in 1..26 : LowerCase[k] = c
IsDigit(c) == \E k \in 1..10 : DigitChars[k] = c
IsSpace(c) == c \in {" ", "\t", "\n"}
\* \w of the re module
IsWordChar(c) == IsUpper(c) \/ IsLower(c) \/ IsDigit(c) \/ c = "_"

LowerChar(c) == IF IsUpper(c) THEN LowerCase[CHOOSE k \in 1..26 : UpperCase[k] = c] ELSE c
\* str.lower()
lower(text) == [i \in 1..Len(text) |-> LowerChar(text[i])]

\* int() of one decimal digit
DigitValue(c) == (CHOOSE k \in 1..10 : DigitChars[k] = c) - 1

\* w occurs in text at position i
At(text, i, w) ==
    /\ i >= 1
    /\ i + Len(w) - 1 <= Len(text)
    /\ \A k \in 1..Len(w) : text[i + k - 1] = w[k]

\* \b holds between the characters i - 1 and i of text
Boundary(text, i) ==
    (i > 1 /\ i - 1 <= Len(text) /\ IsWordChar(text[i - 1]))
        # (i >= 1 /\ i <= Len(text) /\ IsWordChar(text[i]))

\* the position after the run of whitespace that starts at i
RECURSIVE SkipSpaces(_, _)
SkipSpaces(text, i) ==
    IF i <= Len(text) /\ IsSpace(text[i]) THEN SkipSpaces(text, i + 1) ELSE i

\* w1\s+w2\s+...wn matched from position i on: the position after the match,
\* 0 when there is no match
RECURSIVE MatchWords(_, _, _)
MatchWords(text, i, words) ==
    IF ~At(text, i, Head(words)) THEN 0
    ELSE LET e == i + Len(Head(words))
             n == SkipSpaces(text, e)
         IN  IF Len(words) = 1 THEN e
             ELSE IF n = e THEN 0
             ELSE MatchWords(text, n, Tail(words))

\* re.search of \bw1\s+...wn\b, or of \bhead.*w1\s+...wn\b when the pattern
\* has a head
Search(text, pat) ==
    LET Ends(i) == MatchWords(text, i, pat.words)
        Closed(i) == Ends(i) # 0 /\ Boundary(text, Ends(i))
    IN  IF pat.head = <<>>
        THEN \E i \in 1..Len(text) : Boundary(text, i) /\ Closed(i)
        ELSE \E i \in 1..Len(text) :
                /\ Boundary(text, i)
                /\ At(text, i, pat.head)
                /\ \E j \in (i + Len(pat.head))..Len(text) :
                      /\ Closed(j)
                      /\ \A k \in i..(j - 1) : text[k] # "\n"

\* any(re.search(pattern, text) for pattern in patterns)
SearchAny(text, patterns) ==
    \E k \in 1..Len(patterns) : Search(text, patterns[k])

\* word in text: the substring test of Python
Contains(text, w) == \E i \in 1..Len(text) : At(text, i, w)

\* Query.first() over rows kept in primary-key order: the least of the
\* matching row numbers, 0 when no row matches.
First(hits) ==
    IF hits = {} THEN 0 ELSE CHOOSE i \in hits : \A j \in hits : i <= j

UpperChar(c) == IF IsLower(c) THEN UpperCase[CHOOSE k \in 1..26 : LowerCase[k] = c] ELSE c

\* [A-Za-z0-9-]
IsSkuChar(c) == IsUpper(c) \/ IsLower(c) \/ IsDigit(c) \/ c = "-"

\* the position after the run of [A-Za-z0-9-] that starts at i
RECURSIVE SkipSkuChars(_, _)
SkipSkuChars(text, i) ==
    IF i <= Len(text) /\ IsSkuChar(text[i]) THEN SkipSkuChars(text, i + 1) ELSE i

\* int() of the run of digits that starts at i, after the digits read into acc
RECURSIVE ParseDigits(_, _, _)
ParseDigits(text, i, acc) ==
    IF i <= Len(text) /\ IsDigit(text[i])
    THEN ParseDigits(text, i + 1, acc * 10 + DigitValue(text[i]))
    ELSE acc

\* str.strip()
strip(text) ==
    LET solid == {i \in 1..Len(text) : ~IsSpace(text[i])}
    IN  IF solid = {} THEN <<>>
        ELSE SubSeq(text, CHOOSE i \in solid : \A j \in solid : i <= j,
                          CHOOSE i \in solid : \A j \in solid : j <= i)

\* str.upper()
upper(text) == [i \in 1..Len(text) |-> UpperChar(text[i])]

\* [A-Za-z]
IsLetter(c) == IsUpper(c) \/ IsLower(c)

\* w occurs in text at position i, whatever the case of text (re.IGNORECASE)
AtNoCase(text, i, w) ==
    /\ i >= 1
    /\ i + Len(w) - 1 <= Len(text)
    /\ \A k \in 1..Len(w) : LowerChar(text[i + k - 1]) = w[k]

\* the position after the run of digits that starts at i
RECURSIVE SkipDigits(_, _)
SkipDigits(text, i) ==
    IF i <= Len(text) /\ IsDigit(text[i]) THEN SkipDigits(text, i + 1) ELSE i

\* the position after the run of [A-Za-z0-9] that starts at i
RECURSIVE SkipAlnum(_, _)
SkipAlnum(text, i) ==
    IF i <= Len(text) /\ (IsLetter(text[i]) \/ IsDigit(text[i]))
    THEN SkipAlnum(text, i + 1) ELSE i

\* the position after the run of [:\s] that starts at i
RECURSIVE SkipColonSpaces(_, _)
SkipColonSpaces(text, i) ==
    IF i <= Len(text) /\ (text[i] = ":" \/ IsSpace(text[i]))
    THEN SkipColonSpaces(text, i + 1) ELSE i

\* keyword[:\s]+ (colon) or keyword\s+ matched at i: the position after the
\* separators, 0 without a match
AfterKeyword(text, i, keyword, colon) ==
    LET a == i + Len(keyword)
        b == IF colon THEN SkipColonSpaces(text, a) ELSE SkipSpaces(text, a)
    IN  IF AtNoCase(text, i, keyword) /\ b > a THEN b ELSE 0


\* sku[:\s]+([A-Z0-9\-]+) matched at i: where its group starts, 0 without a
\* match
SkuMentionAt(text, i) ==
    LET c == AfterKeyword(text, i, <<"s", "k", "u">>, TRUE)
    IN  IF c # 0 /\ c <= Len(text) /\ IsSkuChar(text[c]) THEN c ELSE 0

\* \b([A-Z]{3}-[A-Z]{3}-\d{3})\b matches at i
IsProductCodeAt(text, i) ==
    /\ i + 10 <= Len(text)
    /\ Boundary(text, i)
    /\ \A k \in {0, 1, 2, 4, 5, 6} : IsLetter(text[i + k])
    /\ text[i + 3] = "-"
    /\ text[i + 7] = "-"
    /\ \A k \in {8, 9, 10} : IsDigit(text[i + k])
    /\ Boundary(text, i + 11)

\* product_mappings, in the order of the dict: first\s*second -> sku
product_mappings ==
    << [first |-> <<"p", "h", "o", "n", "e">>, second |-> <<"c", "h", "a", "r", "g", "e", "r">>,
        sku |-> <<"P", "H", "N", "-", "C", "H", "G", "-", "0", "0", "1">>],
       [first |-> <<"u", "s", "b">>, second |-> <<"c", "a", "b", "l", "e">>,
        sku |-> <<"U", "S", "B", "-", "C", "B", "L", "-", "0", "0", "1">>],
       [first |-> <<"h", "d", "m", "i">>, second |-> <<"c", "a", "b", "l", "e">>,
        sku |-> <<"H", "D", "M", "-", "C", "B", "L", "-", "0", "0", "1">>],
       [first |-> <<"l", "a", "p", "t", "o", "p">>, second |-> <<"b", "a", "g">>,
        sku |-> <<"L", "A", "P", "-", "B", "A", "G", "-", "0", "0", "1">>],
       [first |-> <<"w", "i", "r", "e", "l", "e", "s", "s">>, second |-> <<"m", "o", "u", "s", "e">>,
        sku |-> <<"M", "S", "E", "-", "W", "R", "L", "-", "0", "0", "1">>],
       [first |-> <<"m", "e", "c", "h", "a", "n", "i", "c", "a", "l">>, second |-> <<"k", "e", "y", "b", "o", "a", "r", "d">>,
        sku |-> <<"K", "B", "D", "-", "M", "E", "C", "-", "0", "0", "1">>] >>

\* re.search(first\s*second, text, re.IGNORECASE)
ProductNameIn(text, name) ==
    \E i \in 1..Len(text) :
        /\ AtNoCase(text, i, name.first)
        /\ AtNoCase(text, SkipSpaces(text, i + Len(name.first)), name.second)

\* extract_sku_from_text without its product names
extract_sku_from_text_unnamed(text) ==
    LET mention == First({i \in 1..Len(text) : SkuMentionAt(text, i) # 0})
        code == First({i \in 1..Len(text) : IsProductCodeAt(text, i)})
    IN  IF mention # 0 THEN upper(SubSeq(text, SkuMentionAt(text, mention),
                          SkipSkuChars(text, SkuMentionAt(text, mention)) - 1))
        ELSE IF code # 0 THEN upper(SubSeq(text, code, code + 10))
        ELSE None

\* extract_sku_from_text trying the product code before the explicit mention
extract_sku_from_text_code_first(text) ==
    LET mention == First({i \in 1..Len(text) : SkuMentionAt(text, i) # 0})
        code == First({i \in 1..Len(text) : IsProductCodeAt(text, i)})
        named == First({k \in 1..Len(product_mappings) :
                          ProductNameIn(text, product_mappings[k])})
    IN  IF code # 0 THEN upper(SubSeq(text, code, code + 10))
        ELSE IF mention # 0 THEN upper(SubSeq(text, SkuMentionAt(text, mention),
                          SkipSkuChars(text, SkuMentionAt(text, mention)) - 1))
        ELSE IF named # 0 THEN product_mappings[named].sku
        ELSE None

extract_sku_from_text(text) ==
    LET mention == First({i \in 1..Len(text) : SkuMentionAt(text, i) # 0})
        code == First({i \in 1..Len(text) : IsProductCodeAt(text, i)})
        named == First({k \in 1..Len(product_mappings) :
                          ProductNameIn(text, product_mappings[k])})
    IN  IF mention # 0 THEN upper(SubSeq(text, SkuMentionAt(text, mention),
                          SkipSkuChars(text, SkuMentionAt(text, mention)) - 1))
        ELSE IF code # 0 THEN upper(SubSeq(text, code, code + 10))
        ELSE IF named # 0 THEN product_mappings[named].sku
        ELSE None

\* keyword, separators, (\d+) matched at i: where the digits start, 0 without
\* a match
NumberAfter(text, i, keyword, colon) ==
    LET c == AfterKeyword(text, i, keyword, colon)
    IN  IF c # 0 /\ c <= Len(text) /\ IsDigit(text[c]) THEN c ELSE 0

\* Where the digits of the first match of keyword, separators, (\d+) start
KeywordNumber(text, keyword, colon) ==
    LET i == First({i \in 1..Len(text) : NumberAfter(text, i, keyword, colon) # 0})
    IN  IF i = 0 THEN 0 ELSE NumberAfter(text, i, keyword, colon)

\* Where the digits of the first match of (\d+)\s*units? start
UnitsNumber(text) ==
    First({i \in 1..Len(text) :
            /\ IsDigit(text[i])
            /\ AtNoCase(text, SkipSpaces(text, SkipDigits(text, i)), <<"u", "n", "i", "t">>)})

\* Where the digits of the first match of (\d+)\s+(?:of|x) start
CountedNumber(text) ==
    First({i \in 1..Len(text) :
            /\ IsDigit(text[i])
            /\ SkipSpaces(text, SkipDigits(text, i)) > SkipDigits(text, i)
            /\ \/ AtNoCase(text, SkipSpaces(text, SkipDigits(text, i)), <<"o", "f">>)
               \/ AtNoCase(text, SkipSpaces(text, SkipDigits(text, i)), <<"x">>)})

\* Where the first match of \b(\d+)\b starts
BareNumber(text) ==
    First({i \in 1..Len(text) :
            /\ IsDigit(text[i])
            /\ Boundary(text, i)
            /\ Boundary(text, SkipDigits(text, i))})

\* The shapes of extract_quantity in their order, then the bare number
QuantityStarts(text) ==
    << UnitsNumber(text),
       KeywordNumber(text, <<"a", "d", "d">>, FALSE),
       KeywordNumber(text, <<"s", "h", "i", "p">>, FALSE),
       CountedNumber(text),
       KeywordNumber(text, <<"q", "u", "a", "n", "t", "i", "t", "y">>, TRUE),
       KeywordNumber(text, <<"u", "n", "i", "t">>, TRUE),
       BareNumber(text) >>

\* int(match.group(1)) of the first shape that matched
extract_quantity(text) ==
    LET starts == QuantityStarts(text)
    IN  IF \A k \in 1..Len(starts) : starts[k] = 0 THEN None
        ELSE ParseDigits(text, starts[First({k \in 1..Len(starts) : starts[k] # 0})], 0)

\* [A-Za-z\s], and the digits too when digits holds
IsNameChar(c, digits) == IsLetter(c) \/ IsSpace(c) \/ (digits /\ IsDigit(c))

\* (class+?)(?:\s|$) with the group starting at g and reaching j at least:
\* the last position of the group, 0 without a match
RECURSIVE LazyGroupEnd(_, _, _)
LazyGroupEnd(text, j, digits) ==
    IF j > Len(text) \/ ~IsNameChar(text[j], digits) THEN 0
    ELSE IF j = Len(text) \/ IsSpace(text[j + 1]) THEN j
    ELSE LazyGroupEnd(text, j + 1, digits)

\* The greedy separators after the keyword give characters back until the
\* group matches: the group starts at g, or earlier down to a + 1.
\* <<start, end>> of the group, <<0, 0>> without a match
RECURSIVE LazyGroupFrom(_, _, _, _)
LazyGroupFrom(text, a, g, digits) ==
    IF g <= a THEN <<0, 0>>
    ELSE IF LazyGroupEnd(text, g, digits) # 0 THEN <<g, LazyGroupEnd(text, g, digits)>>
    ELSE LazyGroupFrom(text, a, g - 1, digits)

\* keyword, separators, lazy group matched at i: <<start, end>> of the group
NamedGroupAt(text, i, keyword, colon, digits) ==
    IF AfterKeyword(text, i, keyword, colon) = 0 THEN <<0, 0>>
    ELSE LazyGroupFrom(text, i + Len(keyword), AfterKeyword(text, i, keyword, colon), digits)

\* match.group(1).strip() of the first match, None without a match
NamedGroup(text, keyword, colon, digits) ==
    LET i == First({i \in 1..Len(text) :
                      NamedGroupAt(text, i, keyword, colon, digits)[1] # 0})
    IN  IF i = 0 THEN None
        ELSE strip(SubSeq(text, NamedGroupAt(text, i, keyword, colon, digits)[1],
                                NamedGroupAt(text, i, keyword, colon, digits)[2]))

\* The first of the groups that is not None, None when all are
FirstGroup(groups) ==
    IF \A k \in 1..Len(groups) : groups[k] = None THEN None
    ELSE groups[First({k \in 1..Len(groups) : groups[k] # None})]

\* re.sub(r'\s+(to|at|in)$', '', seller, flags=re.IGNORECASE)
drop_trailing_word(seller) ==
    LET n == Len(seller)
        solid == {i \in 1..(n - 3) : ~IsSpace(seller[i])}
    IN  IF seller # None /\ n >= 3 /\ IsSpace(seller[n - 2])
           /\ (AtNoCase(seller, n - 1, <<"t", "o">>) \/ AtNoCase(seller, n - 1, <<"a", "t">>)
               \/ AtNoCase(seller, n - 1, <<"i", "n">>))
        THEN SubSeq(seller, 1, IF solid = {} THEN 0
                               ELSE CHOOSE i \in solid : \A j \in solid : j <= i)
        ELSE seller

extract_seller(text) ==
    drop_trailing_word(FirstGroup(<< NamedGroup(text, <<"s", "e", "l", "l", "e", "r">>, TRUE, FALSE),
                                     NamedGroup(text, <<"f", "r", "o", "m">>, FALSE, FALSE),
                                     NamedGroup(text, <<"b", "y">>, FALSE, FALSE) >>))

\* match.group(1).strip() of the first match of warehouse\s+([A-Za-z0-9]+)
WarehouseGroup(text) ==
    LET Start(i) == AfterKeyword(text, i, <<"w", "a", "r", "e", "h", "o", "u", "s", "e">>, FALSE)
        i == First({i \in 1..Len(text) :
                      /\ Start(i) # 0
                      /\ SkipAlnum(text, Start(i)) > Start(i)})
    IN  IF i = 0 THEN None ELSE SubSeq(text, Start(i), SkipAlnum(text, Start(i)) - 1)

extract_destination(text) ==
    LET group == FirstGroup(<< NamedGroup(text, <<"t", "o">>, FALSE, TRUE),
                               NamedGroup(text, <<"d", "e", "s", "t", "i", "n", "a", "t", "i", "o", "n">>, TRUE, TRUE),
                               WarehouseGroup(text) >>)
    IN  IF group = None THEN <<"w", "a", "r", "e", "h", "o", "u", "s", "e">> ELSE group

\* add, restock, inbound, receive[d]?, new\s+stock
add_patterns ==
    << [head |-> <<>>, words |-> <<<<"a", "d", "d">>>>],
       [head |-> <<>>, words |-> <<<<"r", "e", "s", "t", "o", "c", "k">>>>],
       [head |-> <<>>, words |-> <<<<"i", "n", "b", "o", "u", "n", "d">>>>],
       [head |-> <<>>, words |-> <<<<"r", "e", "c", "e", "i", "v", "e">>>>],
       [head |-> <<>>, words |-> <<<<"r", "e", "c", "e", "i", "v", "e", "d">>>>],
       [head |-> <<>>, words |-> <<<<"n", "e", "w">>, <<"s", "t", "o", "c", "k">>>>] >>

\* ship, send, outbound, dispatch, remove, take\s+out
ship_patterns ==
    << [head |-> <<>>, words |-> <<<<"s", "h", "i", "p">>>>],
       [head |-> <<>>, words |-> <<<<"s", "e", "n", "d">>>>],
       [head |-> <<>>, words |-> <<<<"o", "u", "t", "b", "o", "u", "n", "d">>>>],
       [head |-> <<>>, words |-> <<<<"d", "i", "s", "p", "a", "t", "c", "h">>>>],
       [head |-> <<>>, words |-> <<<<"r", "e", "m", "o", "v", "e">>>>],
       [head |-> <<>>, words |-> <<<<"t", "a", "k", "e">>, <<"o", "u", "t">>>>] >>

\* check, stock, inventory, how\s+many, available, what.*in\s+stock, show\s+me, list
check_patterns ==
    << [head |-> <<>>, words |-> <<<<"c", "h", "e", "c", "k">>>>],
       [head |-> <<>>, words |-> <<<<"s", "t", "o", "c", "k">>>>],
       [head |-> <<>>, words |-> <<<<"i", "n", "v", "e", "n", "t", "o", "r", "y">>>>],
       [head |-> <<>>, words |-> <<<<"h", "o", "w">>, <<"m", "a", "n", "y">>>>],
       [head |-> <<>>, words |-> <<<<"a", "v", "a", "i", "l", "a", "b", "l", "e">>>>],
       [head |-> <<"w", "h", "a", "t">>, words |-> <<<<"i", "n">>, <<"s", "t", "o", "c", "k">>>>],
       [head |-> <<>>, words |-> <<<<"s", "h", "o", "w">>, <<"m", "e">>>>],
       [head |-> <<>>, words |-> <<<<"l", "i", "s", "t">>>>] >>

\* hello, hi, hey, help, thanks?, bye
general_patterns ==
    << [head |-> <<>>, words |-> <<<<"h", "e", "l", "l", "o">>>>],
       [head |-> <<>>, words |-> <<<<"h", "i">>>>],
       [head |-> <<>>, words |-> <<<<"h", "e", "y">>>>],
       [head |-> <<>>, words |-> <<<<"h", "e", "l", "p">>>>],
       [head |-> <<>>, words |-> <<<<"t", "h", "a", "n", "k">>>>],
       [head |-> <<>>, words |-> <<<<"t", "h", "a", "n", "k", "s">>>>],
       [head |-> <<>>, words |-> <<<<"b", "y", "e">>>>] >>

\* parse_intent_from_text trying the SHIP keywords before the ADD keywords
parse_intent_from_text_ship_first(text) ==
    LET text_lower == lower(text)
    IN  IF SearchAny(text_lower, ship_patterns)
        THEN [intent |-> "SHIP_STOCK", sku |-> extract_sku_from_text(text),
              quantity |-> extract_quantity(text),
              destination |-> extract_destination(text), confidence |-> "high"]
        ELSE IF SearchAny(text_lower, add_patterns)
        THEN [intent |-> "ADD_STOCK", sku |-> extract_sku_from_text(text),
              quantity |-> extract_quantity(text), seller |-> extract_seller(text),
              confidence |-> "high"]
        ELSE IF SearchAny(text_lower, check_patterns)
        THEN [intent |-> "CHECK_STOCK", sku |-> extract_sku_from_text(text),
              confidence |-> "high"]
        ELSE IF SearchAny(text_lower, general_patterns)
        THEN [intent |-> "GENERAL", confidence |-> "high"]
        ELSE [intent |-> "UNKNOWN", confidence |-> "low"]

parse_intent_from_text(text) ==
    LET text_lower == lower(text)
    IN  IF SearchAny(text_lower, add_patterns)
        THEN [intent |-> "ADD_STOCK", sku |-> extract_sku_from_text(text),
              quantity |-> extract_quantity(text), seller |-> extract_seller(text),
              confidence |-> "high"]
        ELSE IF SearchAny(text_lower, ship_patterns)
        THEN [intent |-> "SHIP_STOCK", sku |-> extract_sku_from_text(text),
              quantity |-> extract_quantity(text),
              destination |-> extract_destination(text), confidence |-> "high"]
        ELSE IF SearchAny(text_lower, check_patterns)
        THEN [intent |-> "CHECK_STOCK", sku |-> extract_sku_from_text(text),
              confidence |-> "high"]
        ELSE IF SearchAny(text_lower, general_patterns)
        THEN [intent |-> "GENERAL", confidence |-> "high"]
        ELSE [intent |-> "UNKNOWN", confidence |-> "low"]


\* The words get_general_response looks for: ['hello', 'hi', 'hey'], 'help',
\* ['thanks', 'thank you'], ['bye', 'goodbye']
general_words ==
    [greeting |-> << <<"h", "e", "l", "l", "o">>, <<"h", "i">>, <<"h", "e", "y">> >>,
     help |-> << <<"h", "e", "l", "p">> >>,
     thanks |-> << <<"t", "h", "a", "n", "k", "s">>, <<"t", "h", "a", "n", "k", " ", "y", "o", "u">> >>,
     farewell |-> << <<"b", "y", "e">>, <<"g", "o", "o", "d", "b", "y", "e">> >>]

ContainsAny(text, ws) == \E k \in 1..Len(ws) : Contains(text, ws[k])

\* The canned reply get_general_response picks, None when it has none
get_general_response(text) ==
    LET text_lower == lower(text)
    IN  IF ContainsAny(text_lower, general_words.greeting) THEN <<"greeting">>
        ELSE IF ContainsAny(text_lower, general_words.help) THEN <<"help">>
        ELSE IF ContainsAny(text_lower, general_words.thanks) THEN <<"thanks">>
        ELSE IF ContainsAny(text_lower, general_words.farewell) THEN <<"farewell">>
        ELSE None


\* The messages of the examples: "Add 10 phone chargers from Acme", "Ship 5
\* USB cables to warehouse B", "What's in stock?", "hello", "What happened to
\* my order from last week?", "Add 3 USB cables from Acme"
msg ==
    [add |->
        <<"A", "d", "d", " ", "1", "0", " ", "p", "h", "o", "n", "e", " ", "c", "h", "a", "r", "g", "e", "r", "s", " ", "f", "r", "o", "m", " ", "A", "c", "m", "e">>,
     ship |->
        <<"S", "h", "i", "p", " ", "5", " ", "U", "S", "B", " ", "c", "a", "b", "l", "e", "s", " ", "t", "o", " ", "w", "a", "r", "e", "h", "o", "u", "s", "e", " ", "B">>,
     check |->
        <<"W", "h", "a", "t", "'", "s", " ", "i", "n", " ", "s", "t", "o", "c", "k", "?">>,
     hello |->
        <<"h", "e", "l", "l", "o">>,
     unknown |->
        <<"W", "h", "a", "t", " ", "h", "a", "p", "p", "e", "n", "e", "d", " ", "t", "o", " ", "m", "y", " ", "o", "r", "d", "e", "r", " ", "f", "r", "o", "m", " ", "l", "a", "s", "t", " ", "w", "e", "e", "k", "?">>,
     add_usb |->
        <<"A", "d", "d", " ", "3", " ", "U", "S", "B", " ", "c", "a", "b", "l", "e", "s", " ", "f", "r", "o", "m", " ", "A", "c", "m", "e">>]

Messages == {msg.add, msg.ship, msg.check, msg.hello, msg.unknown}

-----------------------------------------------------------------------------
(* Values.  Strings of the program are sequences of characters.            *)

\* "PHN-CHG-001"
sku_phone_charger ==
    <<"P", "H", "N", "-", "C", "H", "G", "-", "0", "0", "1">>
\* "USB-CBL-001"
sku_usb_cable ==
    <<"U", "S", "B", "-", "C", "B", "L", "-", "0", "0", "1">>
Skus == {sku_phone_charger, sku_usb_cable}

Quantities == {-1, 0, 1, 2}

\* "Acme"
name_acme ==
    <<"A", "c", "m", "e">>
SellerNames == {name_acme}

\* "Default Seller"
default_seller_name ==
    <<"D", "e", "f", "a", "u", "l", "t", " ", "S", "e", "l", "l", "e", "r">>
\* "BIZ-DEFAULT"
default_business_id ==
    <<"B", "I", "Z", "-", "D", "E", "F", "A", "U", "L", "T">>

\* "warehouse B"
warehouse_b ==
    <<"w", "a", "r", "e", "h", "o", "u", "s", "e", " ", "B">>
Destinations == {None, warehouse_b}

\* f"BIZ-{seller_name.upper().replace(' ', '-')}"
BusinessIdOf(seller_name) ==
    <<"B", "I", "Z", "-">> \o [i \in 1..Len(seller_name) |->
                IF seller_name[i] = " " THEN "-" ELSE UpperChar(seller_name[i])]

\* The three tables a unit of work of the engine reads and writes.
Store == [sellers |-> sellers, products |-> products, transactions |-> transactions]

\* The places of add_stock / remove_stock where a commit can raise.
FailPoints == {"none", "create_seller", "create_product", "update_stock", "log_transaction"}

-----------------------------------------------------------------------------
(* Queries.                                                                *)

get_product_by_sku(st, sku) ==
    First({i \in 1..Len(st.products) : st.products[i].sku = sku})

get_seller_by_name(st, name) ==
    First({i \in 1..Len(st.sellers) : lower(st.sellers[i].name) = lower(name)})

get_seller_by_id(st, seller_id) ==
    IF seller_id \in 1..Len(st.sellers) THEN seller_id ELSE 0

-----------------------------------------------------------------------------
(* Writes.  Each returns ok = FALSE when its commit raises; the store it   *)
(* returns is then the store as of the last successful commit, which is    *)
(* what db.rollback() in the caller's handler restores.                    *)

create_seller(st, name, business_id, fail) ==
    LET unique == \A i \in 1..Len(st.sellers) : st.sellers[i].business_id # business_id
    IN  IF fail = "create_seller" \/ ~unique
        THEN [ok |-> FALSE, store |-> st, id |-> 0]
        ELSE [ok |-> TRUE,
              store |-> [st EXCEPT !.sellers =
                            Append(@, [name |-> name, business_id |-> business_id])],
              id |-> Len(st.sellers) + 1]

create_product(st, seller_id, sku, initial_stock, fail) ==
    IF fail = "create_product"
    THEN [ok |-> FALSE, store |-> st, id |-> 0]
    ELSE [ok |-> TRUE,
          store |-> [st EXCEPT !.products =
                        Append(@, [seller_id |-> seller_id, sku |-> sku,
                                   current_stock |-> initial_stock])],
          id |-> Len(st.products) + 1]

log_transaction(st, product_id, transaction_type, quantity, destination, fail) ==
    IF fail = "log_transaction"
    THEN [ok |-> FALSE, store |-> st]
    ELSE [ok |-> TRUE,
          store |-> [st EXCEPT !.transactions =
                        Append(@, [product_id |-> product_id, type |-> transaction_type,
                                   quantity |-> quantity, destination |-> destination])]]

\* product.current_stock = new_stock; db.commit()
commit_stock(st, product_id, new_stock, fail) ==
    IF fail = "update_stock"
    THEN [ok |-> FALSE, store |-> st]
    ELSE [ok |-> TRUE,
          store |-> [st EXCEPT !.products[product_id].current_stock = new_stock]]

-----------------------------------------------------------------------------
(* Stock management.                                                       *)

Failure(st, outcome) ==
    [success |-> FALSE, outcome |-> outcome, stock |-> None, store |-> st]

\* add_stock_update without its log_transaction
add_stock_update_unlogged(st, product_id, quantity, fail) ==
    LET upd == commit_stock(st, product_id,
                            st.products[product_id].current_stock + quantity, fail)
    IN  IF ~upd.ok THEN Failure(upd.store, "exception")
        ELSE [success |-> TRUE, outcome |-> "added",
              stock |-> upd.store.products[product_id].current_stock,
              store |-> upd.store]

\* add_stock from "Update stock" on, with the product resolved
add_stock_update(st, product_id, quantity, fail) ==
    LET upd == commit_stock(st, product_id,
                            st.products[product_id].current_stock + quantity, fail)
        log == log_transaction(upd.store, product_id, "INBOUND", quantity, None, fail)
    IN  IF ~upd.ok THEN Failure(upd.store, "exception")
        ELSE IF ~log.ok THEN Failure(log.store, "exception")
        ELSE [success |-> TRUE, outcome |-> "added",
              stock |-> log.store.products[product_id].current_stock,
              store |-> log.store]

\* add_stock from "Find or create product" on; seller_id = 0 is seller = None
add_stock_product(st, sku, quantity, seller_id, fail) ==
    LET found == get_product_by_sku(st, sku)
        dflt == get_seller_by_name(st, default_seller_name)
        mkdflt == create_seller(st, default_seller_name, default_business_id, fail)
        owner == IF seller_id # 0 THEN [ok |-> TRUE, store |-> st, id |-> seller_id]
                 ELSE IF dflt # 0 THEN [ok |-> TRUE, store |-> st, id |-> dflt]
                 ELSE mkdflt
        mkprod == create_product(owner.store, owner.id, sku, 0, fail)
    IN  IF found # 0 THEN add_stock_update(st, found, quantity, fail)
        ELSE IF ~owner.ok THEN Failure(owner.store, "exception")
        ELSE IF ~mkprod.ok THEN Failure(mkprod.store, "exception")
        ELSE add_stock_update(mkprod.store, mkprod.id, quantity, fail)

\* add_stock leaving an unknown seller uncreated: the product falls to the
\* default seller
add_stock_no_create(st, sku, quantity, seller_name, fail) ==
    LET known == get_seller_by_name(st, seller_name)
    IN  IF seller_name \in {None, <<>>} THEN add_stock_product(st, sku, quantity, 0, fail)
        ELSE add_stock_product(st, sku, quantity, known, fail)

add_stock(st, sku, quantity, seller_name, fail) ==
    LET known == get_seller_by_name(st, seller_name)
        mk == create_seller(st, seller_name, BusinessIdOf(seller_name), fail)
    IN  IF seller_name \in {None, <<>>} THEN add_stock_product(st, sku, quantity, 0, fail)
        ELSE IF known # 0 THEN add_stock_product(st, sku, quantity, known, fail)
        ELSE IF ~mk.ok THEN Failure(mk.store, "exception")
        ELSE add_stock_product(mk.store, sku, quantity, mk.id, fail)

\* remove_stock logging the shipment without its destination
remove_stock_no_destination(st, sku, quantity, destination, fail) ==
    LET found == get_product_by_sku(st, sku)
        upd == commit_stock(st, found, st.products[found].current_stock - quantity, fail)
        log == log_transaction(upd.store, found, "OUTBOUND", quantity, None, fail)
    IN  IF found = 0 THEN Failure(st, "not_found")
        ELSE IF st.products[found].current_stock < quantity
             THEN Failure(st, "insufficient")
        ELSE IF ~upd.ok THEN Failure(upd.store, "exception")
        ELSE IF ~log.ok THEN Failure(log.store, "exception")
        ELSE [success |-> TRUE, outcome |-> "shipped",
              stock |-> log.store.products[found].current_stock,
              store |-> log.store]

\* remove_stock with the guard off by one: a quantity of stock + 1 passes
remove_stock_loose_guard(st, sku, quantity, destination, fail) ==
    LET found == get_product_by_sku(st, sku)
        upd == commit_stock(st, found, st.products[found].current_stock - quantity, fail)
        log == log_transaction(upd.store, found, "OUTBOUND", quantity, destination, fail)
    IN  IF found = 0 THEN Failure(st, "not_found")
        ELSE IF st.products[found].current_stock + 1 < quantity
             THEN Failure(st, "insufficient")
        ELSE IF ~upd.ok THEN Failure(upd.store, "exception")
        ELSE IF ~log.ok THEN Failure(log.store, "exception")
        ELSE [success |-> TRUE, outcome |-> "shipped",
              stock |-> log.store.products[found].current_stock,
              store |-> log.store]

\* remove_stock without the insufficient-stock guard
remove_stock_unguarded(st, sku, quantity, destination, fail) ==
    LET found == get_product_by_sku(st, sku)
        upd == commit_stock(st, found, st.products[found].current_stock - quantity, fail)
        log == log_transaction(upd.store, found, "OUTBOUND", quantity, destination, fail)
    IN  IF found = 0 THEN Failure(st, "not_found")
        ELSE IF ~upd.ok THEN Failure(upd.store, "exception")
        ELSE IF ~log.ok THEN Failure(log.store, "exception")
        ELSE [success |-> TRUE, outcome |-> "shipped",
              stock |-> log.store.products[found].current_stock,
              store |-> log.store]

\* remove_stock creating the product it does not find, as add_stock does
remove_stock_autocreate(st, sku, quantity, destination, fail) ==
    LET found == get_product_by_sku(st, sku)
        upd == commit_stock(st, found, st.products[found].current_stock - quantity, fail)
        log == log_transaction(upd.store, found, "OUTBOUND", quantity, destination, fail)
    IN  IF found = 0
        THEN Failure(create_product(st, 0, sku, 0, fail).store, "not_found")
        ELSE IF st.products[found].current_stock < quantity
             THEN Failure(st, "insufficient")
        ELSE IF ~upd.ok THEN Failure(upd.store, "exception")
        ELSE IF ~log.ok THEN Failure(log.store, "exception")
        ELSE [success |-> TRUE, outcome |-> "shipped",
              stock |-> log.store.products[found].current_stock,
              store |-> log.store]

remove_stock(st, sku, quantity, destination, fail) ==
    LET found == get_product_by_sku(st, sku)
        upd == commit_stock(st, found, st.products[found].current_stock - quantity, fail)
        log == log_transaction(upd.store, found, "OUTBOUND", quantity, destination, fail)
    IN  IF found = 0 THEN Failure(st, "not_found")
        ELSE IF st.products[found].current_stock < quantity
             THEN Failure(st, "insufficient")
        ELSE IF ~upd.ok THEN Failure(upd.store, "exception")
        ELSE IF ~log.ok THEN Failure(log.store, "exception")
        ELSE [success |-> TRUE, outcome |-> "shipped",
              stock |-> log.store.products[found].current_stock,
              store |-> log.store]

\* check_stock with a SKU: the product's stock, or a not-found failure.
\* check_stock without one: every product, as {sku, stock, seller} rows.
check_stock(st, sku) ==
    LET found == get_product_by_sku(st, sku)
        Row(i) == [sku |-> st.products[i].sku,
                   stock |-> st.products[i].current_stock,
                   seller |-> IF get_seller_by_id(st, st.products[i].seller_id) # 0
                              THEN st.sellers[st.products[i].seller_id].name
                              ELSE <<"U", "n", "k", "n", "o", "w", "n">>]
    IN  IF sku # None
        THEN IF found = 0
             THEN [success |-> FALSE, outcome |-> "not_found", stock |-> None]
             ELSE [success |-> TRUE, outcome |-> "found",
                   stock |-> st.products[found].current_stock]
        ELSE [success |-> TRUE, outcome |-> "listed",
              stock |-> [i \in 1..Len(st.products) |-> Row(i)]]

-----------------------------------------------------------------------------
(* The model-backed parser of gemini_service.py.                           *)

\* \b(add|received|restock)\b
fallback_add_patterns ==
    << [head |-> <<>>, words |-> <<<<"a", "d", "d">>>>],
       [head |-> <<>>, words |-> <<<<"r", "e", "c", "e", "i", "v", "e", "d">>>>],
       [head |-> <<>>, words |-> <<<<"r", "e", "s", "t", "o", "c", "k">>>>] >>

\* \b(ship|shipped|send|dispatched)\b
fallback_ship_patterns ==
    << [head |-> <<>>, words |-> <<<<"s", "h", "i", "p">>>>],
       [head |-> <<>>, words |-> <<<<"s", "h", "i", "p", "p", "e", "d">>>>],
       [head |-> <<>>, words |-> <<<<"s", "e", "n", "d">>>>],
       [head |-> <<>>, words |-> <<<<"d", "i", "s", "p", "a", "t", "c", "h", "e", "d">>>>] >>

\* "sku"
sku_marker ==
    <<"s", "k", "u">>

\* SKU[:#]?\s*([A-Za-z0-9-]+) matched at i: where its group starts, 0 without a match
SkuGroupAt(text, i) ==
    LET a == i + Len(sku_marker)
        b == IF a <= Len(text) /\ text[a] \in {":", "#"} THEN a + 1 ELSE a
        c == SkipSpaces(text, b)
    IN  IF At(lower(text), i, sku_marker) /\ c <= Len(text) /\ IsSkuChar(text[c])
        THEN c ELSE 0

\* The keys of the schema of SYSTEM_PROMPT
AiKeys == {"action", "seller", "sku", "qty", "location"}

\* A parsed message.  has: the keys it holds with a usable value; reading
\* another key raises (KeyError, or TypeError on a null quantity).
AiData(action, seller, sku, qty, location, has) ==
    [action |-> action, seller |-> seller, sku |-> sku, qty |-> qty,
     location |-> location, has |-> has]

_fallback_parse(text) ==
    LET digit == First({i \in 1..Len(text) : IsDigit(text[i])})
        marker == First({i \in 1..Len(text) : SkuGroupAt(text, i) # 0})
        group == SkuGroupAt(text, marker)
        action == IF SearchAny(lower(text), fallback_add_patterns) THEN "ADD"
                  ELSE IF SearchAny(lower(text), fallback_ship_patterns) THEN "SHIP"
                  ELSE "CHECK"
    IN  AiData(action,
               <<>>,
               IF marker # 0 THEN SubSeq(text, group, SkipSkuChars(text, group) - 1)
               ELSE strip(text),
               IF digit # 0 THEN ParseDigits(text, digit, 0) ELSE 0,
               <<>>,
               AiKeys)

\* What the model capability does on a call.
\*   no_client: neither google.genai nor google.generativeai imports
\*   raises:    generate_content raises
\*   no_json:   the response holds no JSON object
\*   json:      the response is the JSON document `answer`
LlmModes == {"no_client", "raises", "no_json", "json"}

parse_message(text, llm, answer) ==
    IF llm = "json"
    THEN [ai_data |-> answer, model_called |-> TRUE]
    ELSE [ai_data |-> _fallback_parse(text), model_called |-> llm # "no_client"]

\* What the model capability does when generate_reply calls it.
\*   no_client: google.generativeai does not import
\*   raises:    generate_content raises
\*   model:     generate_content answers with a sentence
ReplyModes == {"no_client", "raises", "model"}

\* generate_reply: the sentence of the model, or a template when the call fails
generate_reply(ai_data, success, reason, reply_llm) ==
    LET kind == IF reply_llm = "model" THEN "model"
                ELSE IF ~success THEN reason
                ELSE IF ai_data.action = "ADD" THEN "add_completed"
                ELSE IF ai_data.action = "SHIP" THEN "ship_completed"
                ELSE "current_stock"
    IN  [kind |-> kind, model_called |-> reply_llm # "no_client"]

\* The documents the model answers with
AiAnswers ==
    {AiData(action, name_acme, sku_phone_charger, qty, warehouse_b, AiKeys) :
        action \in {"ADD", "SHIP", "CHECK"}, qty \in {1, 2}}
    \cup {AiData("ADD", name_acme, sku_phone_charger, 0, warehouse_b, AiKeys \ {"qty"})}

\* The answer argument where the model answers no document
NoAnswer == CHOOSE answer \in AiAnswers : TRUE

\* parse_message when the model returns no document, over the texts of the
\* specifications, computed once
UnansweredMessage ==
    [text \in Messages, llm \in LlmModes \ {"json"} |-> parse_message(text, llm, NoAnswer)]

\* parse_message(text) in an environment
ParsedMessage(text, llm, answer) ==
    IF llm = "json" THEN parse_message(text, llm, answer) ELSE UnansweredMessage[text, llm]

-----------------------------------------------------------------------------
(* The webhook handlers of main.py.                                        *)

\* db.add(Conversation(sender, direction, message)); db.commit(), with
\* db.rollback() when the commit raises
log_conversation(convs, direction, fail) ==
    IF fail THEN convs ELSE Append(convs, [direction |-> direction])

\* db.query(Product).join(Seller).filter(Seller.name == seller,
\*                                       Product.sku == sku).first()
find_product(st, seller, sku) ==
    First({i \in 1..Len(st.products) :
            /\ st.products[i].seller_id \in 1..Len(st.sellers)
            /\ st.sellers[st.products[i].seller_id].name = seller
            /\ st.products[i].sku = sku})

\* asyncio.create_task needs the running event loop of its thread.  FastAPI
\* awaits an "async def" handler on the loop and runs a plain "def" handler
\* in a worker thread, where create_task raises RuntimeError.
HasRunningLoop(handler) == handler = "twilio"

\* The status a handler answers with: whatsapp_webhook a JSON status,
\* twilio_webhook a TwiML document unless its except clause runs.
Answered(handler, status) == IF handler = "twilio" THEN "xml" ELSE status

\* What a run did.  raised: the handler's outer except clause ran.
Run(st, convs, ai_data, status, outcome, raised, model_called, broadcast, replied) ==
    [store |-> st, conversations |-> convs, ai_data |-> ai_data, status |-> status,
     outcome |-> outcome, raised |-> raised, model_called |-> model_called,
     broadcast |-> broadcast, replied |-> replied, reply |-> "none"]

\* A run that sent the sender a reply: the sentence generate_reply composed
Replied(run, reply) ==
    [run EXCEPT !.reply = reply.kind, !.model_called = @ \/ reply.model_called]

\* The handler's outer except clause: db.rollback(), status "error"
Raised(st, c_in, ai, outcome, called) ==
    Run(st, c_in, ai, "error", outcome, TRUE, called, FALSE, FALSE)

\* A refusal: the reply is sent and logged, nothing is committed to the stock
Refused(handler, st, c_in, ai, outcome, called, reply, env) ==
    Replied(Run(st, log_conversation(c_in, "out", env.out_fail), ai,
                Answered(handler, "error"), outcome, FALSE, called, FALSE, TRUE),
            reply)

\* commit_and_reply with the outbound Conversation write outside a try block
commit_and_reply_unwrapped(handler, st, pending, c_in, ai, outcome, called, reply, env) ==
    IF env.commit_fail THEN Raised(st, c_in, ai, outcome, called \/ reply.model_called)
    ELSE IF ~HasRunningLoop(handler) \/ env.out_fail
         THEN Run(pending, c_in, ai, "error", outcome, TRUE,
                  called \/ reply.model_called, FALSE, FALSE)
    ELSE Replied(Run(pending, log_conversation(c_in, "out", env.out_fail), ai,
                     Answered(handler, "ok"), outcome, FALSE, called, TRUE, TRUE),
                 reply)

\* db.commit() of the pending stock change, then the broadcast task, the
\* reply and its log row
commit_and_reply(handler, st, pending, c_in, ai, outcome, called, reply, env) ==
    IF env.commit_fail THEN Raised(st, c_in, ai, outcome, called \/ reply.model_called)
    ELSE IF ~HasRunningLoop(handler)
         THEN Run(pending, c_in, ai, "error", outcome, TRUE,
                  called \/ reply.model_called, FALSE, FALSE)
    ELSE Replied(Run(pending, log_conversation(c_in, "out", env.out_fail), ai,
                     Answered(handler, "ok"), outcome, FALSE, called, TRUE, TRUE),
                 reply)

\* product.current_stock += ai_data["qty"]; reply
add_branch(handler, st, c_in, ai, parse_called, pid, env) ==
    IF "qty" \notin ai.has THEN Raised(st, c_in, ai, "unparsed", parse_called)
    ELSE commit_and_reply(handler,
             st, [st EXCEPT !.products[pid].current_stock = @ + ai.qty], c_in, ai, "added",
             parse_called,
             IF handler = "twilio" THEN [kind |-> "add_completed", model_called |-> FALSE]
             ELSE generate_reply(ai, TRUE, "", env.reply_llm),
             env)

\* the insufficient-stock guard; product.current_stock -= ai_data["qty"]; the
\* OUTBOUND transaction; reply
ship_branch(handler, st, c_in, ai, parse_called, pid, env) ==
    IF "qty" \notin ai.has THEN Raised(st, c_in, ai, "unparsed", parse_called)
    ELSE IF st.products[pid].current_stock < ai.qty
         THEN Refused(handler, st, c_in, ai, "insufficient", parse_called,
                      generate_reply(ai, FALSE, "Insufficient stock.", env.reply_llm), env)
    ELSE IF "location" \notin ai.has THEN Raised(st, c_in, ai, "unparsed", parse_called)
    ELSE commit_and_reply(handler,
             st,
             [st EXCEPT !.products[pid].current_stock = @ - ai.qty,
                        !.transactions = Append(@,
                            [product_id |-> pid, type |-> "OUTBOUND",
                             quantity |-> ai.qty, destination |-> ai.location])],
             c_in, ai, "shipped", parse_called,
             generate_reply(ai, TRUE, "", env.reply_llm), env)

\* any other action: the stock is reported
check_branch(handler, st, c_in, ai, parse_called, pid, env) ==
    commit_and_reply(handler, st, st, c_in, ai, "checked", parse_called,
                     generate_reply(ai, TRUE, "", env.reply_llm), env)

\* The product looked up, then the branch ai_data["action"] selects
act_on_product(handler, st, c_in, ai, parse_called, pid, env) ==
    IF pid = 0
    THEN Refused(handler, st, c_in, ai, "not_found", parse_called,
                 generate_reply(ai, FALSE, "Product not found.", env.reply_llm), env)
    ELSE IF "action" \notin ai.has THEN Raised(st, c_in, ai, "unparsed", parse_called)
    ELSE IF ai.action = "ADD" THEN add_branch(handler, st, c_in, ai, parse_called, pid, env)
    ELSE IF ai.action = "SHIP" THEN ship_branch(handler, st, c_in, ai, parse_called, pid, env)
    ELSE check_branch(handler, st, c_in, ai, parse_called, pid, env)

\* The message parsed and logged: ai_data["seller"] and ai_data["sku"] are
\* read for the product query
after_parse(handler, st, c_in, ai, parse_called, env) ==
    IF ~({"seller", "sku"} \subseteq ai.has)
    THEN Raised(st, c_in, ai, "unparsed", parse_called)
    ELSE act_on_product(handler, st, c_in, ai, parse_called,
                        find_product(st, ai.seller, ai.sku), env)

\* The body both whatsapp_webhook and the second twilio_webhook run once the
\* message text is read: parse, log, find the product, act, commit,
\* broadcast, reply, log.
parsed_flow(handler, st, convs, pm, env) ==
    after_parse(handler, st, log_conversation(convs, "in", env.in_fail), pm.ai_data,
                pm.model_called, env)

webhook_flow(handler, st, convs, text, env) ==
    parsed_flow(handler, st, convs, ParsedMessage(text, env.llm, env.answer), env)

\* POST /webhook/whatsapp.  request_ok: the payload holds a text message.
whatsapp_webhook(st, convs, request_ok, text, env) ==
    IF ~request_ok
    THEN Run(st, convs, NoAnswer, "error", "malformed", TRUE, FALSE, FALSE, FALSE)
    ELSE webhook_flow("whatsapp", st, convs, text, env)

\* The second handler main.py declares for POST /webhook/twilio.
\* request_ok: the form holds a sender.
twilio_webhook(st, convs, request_ok, text, env) ==
    IF ~request_ok
    THEN Run(st, convs, NoAnswer, "400", "malformed", FALSE, FALSE, FALSE, FALSE)
    ELSE webhook_flow("twilio", st, convs, text, env)

\* The first handler main.py declares for POST /webhook/twilio: it parses the
\* message, logs a fixed reply and answers with it.
twilio_webhook_first(st, convs, request_ok, text, env) ==
    IF ~request_ok
    THEN Run(st, convs, NoAnswer, "400", "malformed", FALSE, FALSE, FALSE, FALSE)
    ELSE LET pm == ParsedMessage(text, env.llm, env.answer)
         IN  Replied(Run(st, log_conversation(convs, "out", env.out_fail), pm.ai_data,
                         "xml", "answered", FALSE, pm.model_called, FALSE, TRUE),
                     [kind |-> "placeholder", model_called |-> FALSE])

-----------------------------------------------------------------------------
(* The requests.                                                           *)

NoCall == [op |-> "none", sku |-> None, quantity |-> 0, seller |-> None,
           destination |-> None, text |-> None, action |-> "none"]
NoResult == [success |-> FALSE, outcome |-> "none", stock |-> None, status |-> "none",
             raised |-> FALSE, model_called |-> FALSE, broadcast |-> FALSE,
             replied |-> FALSE, reply |-> "none"]

EngineCall(op, sku, quantity, seller_name, destination) ==
    [op |-> op, sku |-> sku, quantity |-> quantity, seller |-> seller_name,
     destination |-> destination, text |-> None, action |-> "none"]

EngineResult(r) ==
    [success |-> r.success, outcome |-> r.outcome, stock |-> r.stock, status |-> "none",
     raised |-> r.outcome = "exception", model_called |-> FALSE, broadcast |-> FALSE,
     replied |-> FALSE, reply |-> "none"]

InBounds(st) ==
    /\ \A i \in 1..Len(st.products) :
          st.products[i].current_stock \in (0 - MaxStock)..MaxStock
    /\ Len(st.transactions) <= MaxTx

Install(st) ==
    /\ InBounds(st)
    /\ sellers' = st.sellers
    /\ products' = st.products
    /\ transactions' = st.transactions

\* A session with no call: pc is the statement the call is at, seller,
\* product and stock are what its session has loaded; a call that returned
\* keeps the product and the stock it read
NoSession ==
    [pc |-> "idle", op |-> "none", sku |-> None, quantity |-> 0, name |-> None,
     seller |-> 0, product |-> 0, stock |-> 0, sought |-> FALSE,
     success |-> FALSE, outcome |-> "none"]

\* manager = ConnectionManager(): taken counts the listeners the loop of
\* broadcast has taken from the list, target is the one it is sending to
NoBroadcast ==
    [active_connections |-> <<>>, closed |-> {}, left |-> {}, status |-> "none",
     taken |-> 0, target |-> 0, present |-> {}, received |-> {}]

Init ==
    /\ sellers = <<>>
    /\ products = <<>>
    /\ transactions = <<>>
    /\ conversations = <<>>
    /\ call = NoCall
    /\ result = NoResult
    /\ sessions = [s \in 1..NumSessions |-> NoSession]
    /\ manager = NoBroadcast

CallAddStock(SkuSet, QuantitySet, NameSet, FailSet) ==
    \E sku \in SkuSet, quantity \in QuantitySet, seller_name \in NameSet, fail \in FailSet :
        LET r == add_stock(Store, sku, quantity, seller_name, fail)
        IN  /\ Install(r.store)
            /\ call' = EngineCall("add_stock", sku, quantity, seller_name, None)
            /\ result' = EngineResult(r)
            /\ UNCHANGED <<conversations, sessions, manager>>

CallRemoveStock(SkuSet, QuantitySet, FailSet) ==
    \E sku \in SkuSet, quantity \in QuantitySet, destination \in Destinations,
       fail \in FailSet :
        LET r == remove_stock(Store, sku, quantity, destination, fail)
        IN  /\ Install(r.store)
            /\ call' = EngineCall("remove_stock", sku, quantity, None, destination)
            /\ result' = EngineResult(r)
            /\ UNCHANGED <<conversations, sessions, manager>>

\* check_stock consuming a unit of the stock it reports
CallCheckStock_consuming ==
    \E sku \in Skus :
        LET r == check_stock(Store, sku)
            i == get_product_by_sku(Store, sku)
        IN  /\ i # 0 /\ products[i].current_stock > 0
            /\ call' = EngineCall("check_stock", sku, 0, None, None)
            /\ result' = EngineResult(r)
            /\ products' = [products EXCEPT ![i].current_stock = @ - 1]
            /\ UNCHANGED <<sellers, transactions, conversations, sessions, manager>>

CallCheckStock ==
    \E sku \in Skus \cup {None} :
        LET r == check_stock(Store, sku)
        IN  /\ call' = EngineCall("check_stock", sku, 0, None, None)
            /\ result' = EngineResult(r)
            /\ UNCHANGED <<sellers, products, transactions, conversations, sessions, manager>>

\* A request: ok says that the payload holds what the handler reads from it
WellFormed(text, env) == [ok |-> TRUE, text |-> text, env |-> env]
Malformed(env) == [ok |-> FALSE, text |-> None, env |-> env]

\* One request served: r is what the handler did
Serve(op, r, request) ==
    /\ Install(r.store)
    /\ Len(r.conversations) <= MaxConv
    /\ conversations' = r.conversations
    /\ UNCHANGED <<sessions, manager>>
    /\ call' = IF r.outcome = "malformed"
               THEN [NoCall EXCEPT !.op = op]
               ELSE [op |-> op, sku |-> r.ai_data.sku, quantity |-> r.ai_data.qty,
                     seller |-> r.ai_data.seller, destination |-> r.ai_data.location,
                     text |-> request.text, action |-> r.ai_data.action]
    /\ result' = [success |-> r.status \in {"ok", "xml"}, outcome |-> r.outcome,
                  stock |-> None, status |-> r.status, raised |-> r.raised,
                  model_called |-> r.model_called, broadcast |-> r.broadcast,
                  replied |-> r.replied, reply |-> r.reply]

WhatsappWebhook(RequestSet) ==
    \E request \in RequestSet :
        \E r \in {whatsapp_webhook(Store, conversations, request.ok, request.text,
                                   request.env)} :
            Serve("whatsapp_webhook", r, request)

TwilioWebhook(RequestSet) ==
    \E request \in RequestSet :
        \E r \in {twilio_webhook(Store, conversations, request.ok, request.text,
                                 request.env)} :
            Serve("twilio_webhook", r, request)

TwilioWebhookFirst(RequestSet) ==
    \E request \in RequestSet :
        \E r \in {twilio_webhook_first(Store, conversations, request.ok, request.text,
                                       request.env)} :
            Serve("twilio_webhook_first", r, request)

\* The engine called with every quantity, no commit failing.
Next ==
    \/ CallAddStock(Skus, Quantities, SellerNames \cup {None}, {"none"})
    \/ CallRemoveStock(Skus, Quantities, {"none"})
    \/ CallCheckStock

Spec == Init /\ [][Next]_vars

\* The engine with a commit failing at any of its places.
NextFaults ==
    \/ CallAddStock({sku_phone_charger}, {1}, SellerNames \cup {None}, FailPoints)
    \/ CallRemoveStock({sku_phone_charger}, {1}, FailPoints \ {"create_seller", "create_product"})

SpecFaults == Init /\ [][NextFaults]_vars

\* An environment of a run: what the model does at either call, and no
\* commit failing
Env(llm, answer, reply_llm) ==
    [llm |-> llm, answer |-> answer, reply_llm |-> reply_llm, in_fail |-> FALSE,
     out_fail |-> FALSE, commit_fail |-> FALSE]

\* The requests of the pipeline specification: the model answering a
\* document, and the model answering none
PipelineRequests ==
    {Malformed(Env("no_client", NoAnswer, "no_client"))}
    \cup {WellFormed(text, Env("json", answer, reply_llm)) :
            text \in Messages, answer \in AiAnswers, reply_llm \in ReplyModes}
    \cup {WellFormed(text, Env(llm, NoAnswer, reply_llm)) :
            text \in Messages, llm \in LlmModes \ {"json"}, reply_llm \in ReplyModes}

\* The requests the first twilio_webhook is given: it composes no reply
FirstRequests ==
    {Malformed(Env("no_client", NoAnswer, "no_client"))}
    \cup {WellFormed(text, Env(llm, NoAnswer, "no_client")) :
            text \in Messages, llm \in LlmModes}

\* The webhooks, with the engine stocking the product they act on.
NextPipeline ==
    \/ CallAddStock({sku_phone_charger}, {1}, {name_acme}, {"none"})
    \/ CallRemoveStock({sku_phone_charger}, {1}, {"none"})
    \/ WhatsappWebhook(PipelineRequests)
    \/ TwilioWebhook(PipelineRequests)
    \/ TwilioWebhookFirst(FirstRequests)

SpecPipeline == Init /\ [][NextPipeline]_vars

\* The documents of the quantity specification: ADD and SHIP with a
\* negative, a zero, a positive and a missing quantity
QuantityAnswers ==
    {AiData(action, name_acme, sku_phone_charger, qty, warehouse_b, AiKeys) :
        action \in {"ADD", "SHIP"}, qty \in {-1, 0, 1}}
    \cup {AiData(action, name_acme, sku_phone_charger, 0, warehouse_b, AiKeys \ {"qty"}) :
            action \in {"ADD", "SHIP"}}

QuantityRequests ==
    {WellFormed(text, Env("json", answer, reply_llm)) :
        text \in {msg.add, msg.ship}, answer \in QuantityAnswers, reply_llm \in ReplyModes}

\* The webhooks given every quantity the model can answer.
NextQuantities ==
    \/ CallAddStock({sku_phone_charger}, {1}, {name_acme}, {"none"})
    \/ WhatsappWebhook(QuantityRequests)
    \/ TwilioWebhook(QuantityRequests)

SpecQuantities == Init /\ [][NextQuantities]_vars



\* parse_message(text) called on its own, on the messages and on
\* "Restocked 10 units of SKU: ABC-123" and "Ship 5 of SKU: XYZ-9 to Dock",
\* the model answering the documents of the other specifications, a document
\* without an action or an empty document
CallParseMessage ==
    \E text \in Messages \cup {
                <<"R", "e", "s", "t", "o", "c", "k", "e", "d", " ", "1", "0", " ", "u", "n", "i", "t", "s", " ", "o", "f", " ", "S", "K", "U", ":", " ", "A", "B", "C", "-", "1", "2", "3">>,
                <<"S", "h", "i", "p", " ", "5", " ", "o", "f", " ", "S", "K", "U", ":", " ", "X", "Y", "Z", "-", "9", " ", "t", "o", " ", "D", "o", "c", "k">>},
       llm \in LlmModes,
       answer \in AiAnswers \cup QuantityAnswers
               \cup {AiData("CHECK", name_acme, sku_phone_charger, 1, warehouse_b, AiKeys \ {"action"}),
                     AiData("CHECK", <<>>, <<>>, 0, <<>>, {})} :
        \E r \in {parse_message(text, llm, answer)} :
            /\ call' = [op |-> "parse_message", text |-> text, llm |-> llm]
            /\ result' = [ai_data |-> r.ai_data, model_called |-> r.model_called]
            /\ UNCHANGED <<sellers, products, transactions, conversations, sessions, manager>>

NextParse == CallParseMessage

SpecParse == Init /\ [][NextParse]_vars

MaxScenarioStock == 12   \* |current_stock| of the scenario specification
MaxScenarioTx == 5       \* ledger rows of the scenario specification


ScenarioInstall(st) ==
    /\ \A i \in 1..Len(st.products) :
          st.products[i].current_stock \in (0 - MaxScenarioStock)..MaxScenarioStock
    /\ Len(st.transactions) <= MaxScenarioTx
    /\ sellers' = st.sellers
    /\ products' = st.products
    /\ transactions' = st.transactions

\* parse_intent_from_text(text) called on its own
CallParseIntent(TextSet) ==
    \E text \in TextSet :
        \E intent \in {parse_intent_from_text(text)} :
            /\ call' = [op |-> "parse_intent_from_text", text |-> text]
            /\ result' = intent
            /\ UNCHANGED <<sellers, products, transactions, conversations, sessions, manager>>

\* add_stock called with the entities of an ADD_STOCK message
ExecuteAddStock(TextSet) ==
    \E text \in TextSet :
        \E intent \in {parse_intent_from_text(text)} :
            /\ intent.intent = "ADD_STOCK"
            /\ \E r \in {add_stock(Store, intent.sku, intent.quantity, intent.seller, "none")} :
                /\ ScenarioInstall(r.store)
                /\ call' = [EngineCall("add_stock", intent.sku, intent.quantity,
                                       intent.seller, None) EXCEPT !.text = text]
                /\ result' = EngineResult(r)
                /\ UNCHANGED <<conversations, sessions, manager>>

\* remove_stock called with the entities of a SHIP_STOCK message
ExecuteRemoveStock(TextSet) ==
    \E text \in TextSet :
        \E intent \in {parse_intent_from_text(text)} :
            /\ intent.intent = "SHIP_STOCK"
            /\ \E r \in {remove_stock(Store, intent.sku, intent.quantity,
                                      intent.destination, "none")} :
                /\ ScenarioInstall(r.store)
                /\ call' = [EngineCall("remove_stock", intent.sku, intent.quantity,
                                       None, intent.destination) EXCEPT !.text = text]
                /\ result' = EngineResult(r)
                /\ UNCHANGED <<conversations, sessions, manager>>

\* The fast path on the scenario messages, and the engine given what it read.
NextScenario ==
    \/ CallParseIntent({msg.add, msg.add_usb, msg.ship})
    \/ ExecuteAddStock({msg.add, msg.add_usb, msg.ship})
    \/ ExecuteRemoveStock({msg.add, msg.add_usb, msg.ship})

SpecScenario == Init /\ [][NextScenario]_vars

MaxWords == 3       \* words of a text given to parse_intent_from_text
MaxTokens == 3      \* tokens of a text given to extract_sku_from_text

\* ' '.join(words)
RECURSIVE Join(_)
Join(words) ==
    IF Len(words) = 0 THEN <<>>
    ELSE IF Len(words) = 1 THEN words[1]
    ELSE words[1] \o <<" ">> \o Join(Tail(words))

\* Every sequence of 1..n elements of S
SeqsUpTo(S, n) == UNION {[1..k -> S] : k \in 1..n}

\* Words of the four keyword lists, the first half of a two-word keyword, a
\* word that only contains a keyword, the words general_patterns match, a
\* word that contains "hi", and a number
Words ==
    [add |-> <<"A", "d", "d">>, ship |-> <<"s", "h", "i", "p">>, stock |-> <<"s", "t", "o", "c", "k">>,
     hello |-> <<"h", "e", "l", "l", "o">>, new |-> <<"n", "e", "w">>,
     shipping |-> <<"s", "h", "i", "p", "p", "i", "n", "g">>,
     help |-> <<"h", "e", "l", "p">>, thank |-> <<"t", "h", "a", "n", "k">>,
     thanks |-> <<"T", "h", "a", "n", "k", "s">>, bye |-> <<"b", "y", "e">>,
     this |-> <<"t", "h", "i", "s">>, five |-> <<"5">>]

\* An explicit mention with and without the colon, a product code, two
\* product names and a word that is none of them
Tokens ==
    [mention |-> <<"s", "k", "u", ":", " ", "a", "b", "-", "1">>,
     mention_bare |-> <<"S", "K", "U", " ", "c", "d", "-", "2">>,
     code |-> <<"x", "y", "z", "-", "a", "b", "c", "-", "9", "9", "9">>,
     phone_charger |-> <<"P", "h", "o", "n", "e", " ", "C", "h", "a", "r", "g", "e", "r">>,
     usb_cable |-> <<"u", "s", "b", " ", "c", "a", "b", "l", "e">>,
     plain |-> <<"i", "t", "e", "m">>]

\* The words the texts of a kind are made of: texts with the keywords of the
\* four intents, texts with the keywords of GENERAL, orders with a product
\* code and a number, and texts with SKUs
WordSets ==
    [intent |-> {Words.add, Words.ship, Words.stock, Words.hello, Words.new, Words.shipping},
     general |-> {Words.hello, Words.help, Words.thank, Words.thanks, Words.bye, Words.this},
     order |-> {Words.add, Words.ship, Words.five, Tokens.code, Tokens.plain},
     sku |-> {Tokens[k] : k \in DOMAIN Tokens}]

InitFastPath ==
    /\ sellers = <<>>
    /\ products = <<>>
    /\ transactions = <<>>
    /\ conversations = <<>>
    /\ call \in {[op |-> "intent_text", words |-> words, text |-> Join(words)] :
                    words \in SeqsUpTo(WordSets.intent, MaxWords)
                              \cup SeqsUpTo(WordSets.general, MaxWords)
                              \cup SeqsUpTo(WordSets.order, MaxWords)}
                \cup {[op |-> "sku_text", words |-> words, text |-> Join(words)] :
                    words \in SeqsUpTo(WordSets.sku, MaxTokens)}
    /\ result = NoResult
    /\ sessions = [s \in 1..NumSessions |-> NoSession]
    /\ manager = NoBroadcast

\* parse_intent_from_text(text) on the text drawn
ParseIntent ==
    /\ call.op = "intent_text"
    /\ \E intent \in {parse_intent_from_text(call.text)} :
        /\ call' = [call EXCEPT !.op = "parse_intent_from_text"]
        /\ result' = intent
    /\ UNCHANGED <<sellers, products, transactions, conversations, sessions, manager>>

\* extract_sku_from_text(text) on the text drawn
ExtractSku ==
    /\ call.op = "sku_text"
    /\ \E sku \in {extract_sku_from_text(call.text)} :
        /\ call' = [call EXCEPT !.op = "extract_sku_from_text"]
        /\ result' = [sku |-> sku]
    /\ UNCHANGED <<sellers, products, transactions, conversations, sessions, manager>>

\* get_general_response(text) on a text classified as GENERAL
GeneralResponse ==
    /\ call.op = "parse_intent_from_text"
    /\ result.intent = "GENERAL"
    /\ \E response \in {get_general_response(call.text)} :
        /\ call' = [call EXCEPT !.op = "get_general_response"]
        /\ result' = [intent |-> "GENERAL", response |-> response]
    /\ UNCHANGED <<sellers, products, transactions, conversations, sessions, manager>>

NextFastPath == ParseIntent \/ ExtractSku \/ GeneralResponse

SpecFastPath == InitFastPath /\ [][NextFastPath]_vars

\* Names a caller gives add_stock: a second seller, "Acme" in another case,
\* two names with the same business id, and the empty name
seller_names ==
    [beta |-> <<"B", "e", "t", "a">>, acme_upper |-> <<"A", "C", "M", "E">>,
     al_co |-> <<"A", "l", " ", "C", "o">>, al_dash_co |-> <<"A", "l", "-", "C", "o">>,
     empty |-> <<>>]

\* add_stock for every seller a caller can name.
NextSellers ==
    \/ CallAddStock(Skus, {1}, {None, name_acme} \cup {seller_names[k] : k \in DOMAIN seller_names},
                    {"none"})
    \/ CallRemoveStock(Skus, {1}, {"none"})

SpecSellers == Init /\ [][NextSellers]_vars

\* A call of add_stock or remove_stock begins in a session of its own
BeginCall(SkuSet, NameSet) ==
    \E s \in 1..NumSessions, op \in {"add_stock", "remove_stock"}, sku \in SkuSet,
       seller_name \in NameSet :
        /\ sessions[s].pc \in {"idle", "done"}
        /\ Len(transactions) < MaxSessionTx
        /\ op = "remove_stock" => seller_name = None
        /\ sessions' = [sessions EXCEPT ![s] =
              [NoSession EXCEPT !.op = op, !.sku = sku, !.quantity = 1,
                                !.name = seller_name,
                                !.pc = IF op = "add_stock" /\ seller_name \notin {None, <<>>}
                                       THEN "find_seller" ELSE "find_product"]]
        /\ UNCHANGED <<sellers, products, transactions, conversations, call, result, manager>>

\* seller = get_seller_by_name(db, seller_name), or of "Default Seller"
FindSeller ==
    \E s \in 1..NumSessions :
        \E found \in {get_seller_by_name(Store, sessions[s].name)} :
            /\ sessions[s].pc = "find_seller"
            /\ sessions' = [sessions EXCEPT ![s].seller = found,
                  ![s].pc = IF found = 0 THEN "create_seller"
                            ELSE IF sessions[s].sought THEN "create_product"
                            ELSE "find_product"]
            /\ UNCHANGED <<sellers, products, transactions, conversations, call, result, manager>>

\* seller = create_seller(db, seller_name, business_id); the unique business
\* id raises when another call created the seller meanwhile
CreateSeller ==
    \E s \in 1..NumSessions :
        \E mk \in {create_seller(Store, sessions[s].name,
                                 IF sessions[s].sought THEN default_business_id
                                 ELSE BusinessIdOf(sessions[s].name), "none")} :
            /\ sessions[s].pc = "create_seller"
            /\ sellers' = mk.store.sellers
            /\ sessions' = IF mk.ok
                  THEN [sessions EXCEPT ![s].seller = mk.id,
                           ![s].pc = IF sessions[s].sought THEN "create_product"
                                     ELSE "find_product"]
                  ELSE [sessions EXCEPT ![s] = [NoSession EXCEPT !.op = sessions[s].op, !.pc = "done", !.outcome = "exception"]]
            /\ UNCHANGED <<products, transactions, conversations, call, result, manager>>

\* remove_stock reading the product without its insufficient-stock guard
FindProduct_unguarded ==
    \E s \in 1..NumSessions :
        \E found \in {get_product_by_sku(Store, sessions[s].sku)} :
            /\ sessions[s].pc = "find_product"
            /\ sessions' =
                  IF found # 0
                  THEN [sessions EXCEPT ![s].product = found,
                           ![s].stock = products[found].current_stock, ![s].pc = "update"]
                  ELSE IF sessions[s].op = "remove_stock"
                  THEN [sessions EXCEPT ![s] = [NoSession EXCEPT !.op = sessions[s].op, !.pc = "done", !.outcome = "not_found"]]
                  ELSE IF sessions[s].seller = 0
                  THEN [sessions EXCEPT ![s].sought = TRUE, ![s].name = default_seller_name,
                                        ![s].pc = "find_seller"]
                  ELSE [sessions EXCEPT ![s].sought = TRUE, ![s].pc = "create_product"]
            /\ UNCHANGED <<sellers, products, transactions, conversations, call, result, manager>>

\* product = get_product_by_sku(db, sku): the session loads the row and its
\* current_stock; remove_stock returns when there is no row or too little stock
FindProduct ==
    \E s \in 1..NumSessions :
        \E found \in {get_product_by_sku(Store, sessions[s].sku)} :
            /\ sessions[s].pc = "find_product"
            /\ sessions' =
                  IF found # 0 /\ sessions[s].op = "remove_stock"
                     /\ products[found].current_stock < sessions[s].quantity
                  THEN [sessions EXCEPT ![s] = [NoSession EXCEPT !.op = sessions[s].op, !.pc = "done", !.outcome = "insufficient"]]
                  ELSE IF found # 0
                  THEN [sessions EXCEPT ![s].product = found,
                           ![s].stock = products[found].current_stock, ![s].pc = "update"]
                  ELSE IF sessions[s].op = "remove_stock"
                  THEN [sessions EXCEPT ![s] = [NoSession EXCEPT !.op = sessions[s].op, !.pc = "done", !.outcome = "not_found"]]
                  ELSE IF sessions[s].seller = 0
                  THEN [sessions EXCEPT ![s].sought = TRUE, ![s].name = default_seller_name,
                                        ![s].pc = "find_seller"]
                  ELSE [sessions EXCEPT ![s].sought = TRUE, ![s].pc = "create_product"]
            /\ UNCHANGED <<sellers, products, transactions, conversations, call, result, manager>>

\* product = create_product(db, seller_id=seller.id, sku=sku, initial_stock=0)
CreateProduct ==
    \E s \in 1..NumSessions :
        \E mk \in {create_product(Store, sessions[s].seller, sessions[s].sku, 0, "none")} :
            /\ sessions[s].pc = "create_product"
            /\ products' = mk.store.products
            /\ sessions' = [sessions EXCEPT ![s].product = mk.id, ![s].stock = 0,
                                            ![s].pc = "update"]
            /\ UNCHANGED <<sellers, transactions, conversations, call, result, manager>>

\* The update as UPDATE ... SET current_stock = current_stock + q
UpdateStock_relative ==
    \E s \in 1..NumSessions :
        /\ sessions[s].pc = "update"
        /\ products' = [products EXCEPT ![sessions[s].product].current_stock =
                          IF sessions[s].op = "add_stock" THEN @ + sessions[s].quantity
                          ELSE @ - sessions[s].quantity]
        /\ sessions' = [sessions EXCEPT ![s].pc = "log"]
        /\ UNCHANGED <<sellers, transactions, conversations, call, result, manager>>

\* product.current_stock += quantity (-= in remove_stock); db.commit(): the
\* row gets the value computed from the stock the session loaded
UpdateStock ==
    \E s \in 1..NumSessions :
        /\ sessions[s].pc = "update"
        /\ products' = commit_stock(Store, sessions[s].product,
                          IF sessions[s].op = "add_stock"
                          THEN sessions[s].stock + sessions[s].quantity
                          ELSE sessions[s].stock - sessions[s].quantity, "none").store.products
        /\ sessions' = [sessions EXCEPT ![s].pc = "log"]
        /\ UNCHANGED <<sellers, transactions, conversations, call, result, manager>>

\* log_transaction(...), then the call returns success
LogTransaction ==
    \E s \in 1..NumSessions :
        /\ sessions[s].pc = "log"
        /\ transactions' = log_transaction(Store, sessions[s].product,
                              IF sessions[s].op = "add_stock" THEN "INBOUND" ELSE "OUTBOUND",
                              sessions[s].quantity, None, "none").store.transactions
        /\ sessions' = [sessions EXCEPT ![s] =
              [NoSession EXCEPT !.op = sessions[s].op, !.pc = "done", !.success = TRUE,
                                !.product = sessions[s].product, !.stock = sessions[s].stock,
                                !.outcome = IF sessions[s].op = "add_stock" THEN "added"
                                            ELSE "shipped"]]
        /\ UNCHANGED <<sellers, products, conversations, call, result, manager>>

\* Calls of add_stock and remove_stock on one SKU, statement by statement.
NextConcurrent ==
    \/ BeginCall({sku_phone_charger}, {None})
    \/ FindSeller
    \/ CreateSeller
    \/ FindProduct
    \/ CreateProduct
    \/ UpdateStock
    \/ LogTransaction

SpecConcurrent == Init /\ [][NextConcurrent]_vars

\* manager.connect(websocket) of a dashboard that was never connected
Connect ==
    \E ws \in 1..NumListeners :
        /\ \A i \in 1..Len(manager.active_connections) : manager.active_connections[i] # ws
        /\ ws \notin manager.left
        /\ manager' = [manager EXCEPT !.active_connections = Append(@, ws)]
        /\ UNCHANGED <<sellers, products, transactions, conversations, call, result, sessions>>

\* The peer of a connected dashboard goes away
PeerClose ==
    \E i \in 1..Len(manager.active_connections) :
        /\ manager.active_connections[i] \notin manager.closed
        /\ manager' = [manager EXCEPT !.closed = @ \cup {manager.active_connections[i]}]
        /\ UNCHANGED <<sellers, products, transactions, conversations, call, result, sessions>>

\* dashboard_ws gets WebSocketDisconnect: manager.disconnect(websocket)
Disconnect ==
    \E i \in 1..Len(manager.active_connections) :
        /\ manager.active_connections[i] \in manager.closed
        /\ manager' = [manager EXCEPT
              !.active_connections = SubSeq(@, 1, i - 1) \o SubSeq(@, i + 1, Len(@)),
              !.left = @ \cup {manager.active_connections[i]}]
        /\ UNCHANGED <<sellers, products, transactions, conversations, call, result, sessions>>

\* manager.broadcast(message) starts: the loop takes the first listener and
\* awaits its send_json
BroadcastBegin ==
    /\ manager.status = "none"
    /\ manager' = [manager EXCEPT
          !.present = {manager.active_connections[i] : i \in 1..Len(manager.active_connections)},
          !.status = IF Len(manager.active_connections) = 0 THEN "done" ELSE "running",
          !.taken = IF Len(manager.active_connections) = 0 THEN 0 ELSE 1,
          !.target = IF Len(manager.active_connections) = 0 THEN 0
                     ELSE manager.active_connections[1]]
    /\ UNCHANGED <<sellers, products, transactions, conversations, call, result, sessions>>

\* await ws.send_json(message) ends and the loop takes the next listener of
\* the list as it is now; the send to a peer that went away raises or is lost
BroadcastSend ==
    \E raises \in BOOLEAN :
        /\ manager.status = "running"
        /\ raises => manager.target \in manager.closed
        /\ manager' =
              IF raises THEN [manager EXCEPT !.status = "raised", !.target = 0]
              ELSE [manager EXCEPT
                      !.received = IF manager.target \in manager.closed THEN @
                                   ELSE @ \cup {manager.target},
                      !.status = IF manager.taken < Len(manager.active_connections)
                                 THEN "running" ELSE "done",
                      !.target = IF manager.taken < Len(manager.active_connections)
                                 THEN manager.active_connections[manager.taken + 1] ELSE 0,
                      !.taken = IF manager.taken < Len(manager.active_connections)
                                THEN @ + 1 ELSE @]
        /\ UNCHANGED <<sellers, products, transactions, conversations, call, result, sessions>>

\* One broadcast while dashboards come and go.
NextDashboard ==
    \/ Connect
    \/ PeerClose
    \/ Disconnect
    \/ BroadcastBegin
    \/ BroadcastSend

SpecDashboard == Init /\ [][NextDashboard]_vars

\* The requests of the log-fault specification: every message, the model
\* answering a document, either log write failing or not
LogFaultRequests ==
    {WellFormed(text, [Env("json", answer, "no_client") EXCEPT !.in_fail = in_fail,
                                                              !.out_fail = out_fail]) :
        text \in {msg.add, msg.ship, msg.unknown}, answer \in AiAnswers,
        in_fail \in BOOLEAN, out_fail \in BOOLEAN}

\* The webhooks with the Conversation log failing to be written.
NextLogFaults ==
    \/ CallAddStock({sku_phone_charger}, {1}, {name_acme}, {"none"})
    \/ WhatsappWebhook(LogFaultRequests)
    \/ TwilioWebhook(LogFaultRequests)

SpecLogFaults == Init /\ [][NextLogFaults]_vars

-----------------------------------------------------------------------------
(* Properties.                                                             *)

\* The stock of the product get_product_by_sku finds in table P, 0 without one
StockIn(P, sku) ==
    LET i == get_product_by_sku([products |-> P], sku)
    IN  IF i = 0 THEN 0 ELSE P[i].current_stock

ProductIn(P, sku) == get_product_by_sku([products |-> P], sku)

AllNonNegative(P) == \A i \in 1..Len(P) : P[i].current_stock >= 0

StockCall(c) == c.op \in {"add_stock", "remove_stock"}

PipelineCall(c) == c.op \in {"whatsapp_webhook", "twilio_webhook"}

\* The sum of the quantities of the first n ledger rows of one type for a
\* product
RECURSIVE LedgerSum(_, _, _, _)
LedgerSum(T, pid, type, n) ==
    IF n = 0 THEN 0
    ELSE LedgerSum(T, pid, type, n - 1)
         + (IF T[n].product_id = pid /\ T[n].type = type THEN T[n].quantity ELSE 0)

\* C1: in every state reached through add_stock, remove_stock and the webhook
\* pipeline with no commit failing, for every product the sum of its INBOUND
\* quantities minus the sum of its OUTBOUND quantities equals its
\* current_stock.
C1_LedgerReconciles ==
    \A pid \in 1..Len(products) :
        LedgerSum(transactions, pid, "INBOUND", Len(transactions))
        - LedgerSum(transactions, pid, "OUTBOUND", Len(transactions))
            = products[pid].current_stock

\* C2: a successful add_stock(sku, q) with q > 0 leaves the product's stock at
\* its prior stock (0 for a product that did not exist) plus q, and appends
\* exactly one transaction, INBOUND with quantity q, for that product.
C2_AddStockAddsQuantity ==
    [][ (call'.op = "add_stock" /\ call'.quantity > 0 /\ result'.success) =>
            /\ ProductIn(products', call'.sku) # 0
            /\ StockIn(products', call'.sku) = StockIn(products, call'.sku) + call'.quantity
            /\ result'.stock = StockIn(products', call'.sku)
            /\ transactions' = Append(transactions,
                    [product_id |-> ProductIn(products', call'.sku), type |-> "INBOUND",
                     quantity |-> call'.quantity, destination |-> None]) ]_vars

\* add_stock has added to a product that already had stock
C2_Witness ==
    /\ call.op = "add_stock" /\ call.quantity > 0 /\ result.success
    /\ result.stock > call.quantity

\* C3: remove_stock(sku, q, destination) on an existing product with
\* 0 < q <= current stock succeeds, leaves the stock at the prior stock minus q
\* and appends exactly one OUTBOUND transaction with quantity q and that destination.
C3_RemoveStockShips ==
    [][ ( /\ call'.op = "remove_stock"
          /\ ProductIn(products, call'.sku) # 0
          /\ 0 < call'.quantity
          /\ call'.quantity <= StockIn(products, call'.sku) ) =>
            /\ result'.success
            /\ StockIn(products', call'.sku) = StockIn(products, call'.sku) - call'.quantity
            /\ result'.stock = StockIn(products', call'.sku)
            /\ transactions' = Append(transactions,
                    [product_id |-> ProductIn(products, call'.sku), type |-> "OUTBOUND",
                     quantity |-> call'.quantity, destination |-> call'.destination]) ]_vars

\* remove_stock has shipped to a named destination and left stock behind
C3_Witness ==
    /\ call.op = "remove_stock" /\ call.quantity > 0 /\ result.success
    /\ call.destination = warehouse_b /\ result.stock > 0

\* C4: remove_stock(sku, q) on an existing product with q above its stock
\* fails with insufficient stock and changes neither a stock nor the ledger.
C4_InsufficientStockRefused ==
    [][ ( /\ call'.op = "remove_stock"
          /\ ProductIn(products, call'.sku) # 0
          /\ call'.quantity > StockIn(products, call'.sku) ) =>
            /\ ~result'.success
            /\ result'.outcome = "insufficient"
            /\ UNCHANGED <<sellers, products, transactions>> ]_vars

\* remove_stock has refused a quantity above a positive stock
C4_Witness ==
    /\ call.op = "remove_stock" /\ result.outcome = "insufficient"
    /\ StockIn(products, call.sku) > 0

\* C5 as stated: whatever the quantities, no stock is ever negative.
C5_StockNeverNegative == AllNonNegative(products)

\* C5, amended: a call of add_stock with a quantity >= 0, and a call of
\* remove_stock with any quantity, never takes a stock below zero.
C5_NonNegativePreserved ==
    [][ ( /\ StockCall(call')
          /\ ~(call'.op = "add_stock" /\ call'.quantity < 0)
          /\ AllNonNegative(products) ) => AllNonNegative(products') ]_vars

\* remove_stock has shipped the whole stock of a product
C5_Witness ==
    /\ call.op = "remove_stock" /\ call.quantity > 0 /\ result.success
    /\ result.stock = 0

\* C6: a call of add_stock or remove_stock in which a commit raised returns a
\* failure and leaves the three tables as they were before the call.
C6_FailureLeavesNoTrace ==
    [][ (StockCall(call') /\ result'.outcome = "exception") =>
            /\ ~result'.success
            /\ UNCHANGED <<sellers, products, transactions>> ]_vars

\* C7: remove_stock for a SKU without a product fails with not-found and
\* creates no seller, no product and no transaction.
C7_RemoveUnknownSku ==
    [][ (call'.op = "remove_stock" /\ ProductIn(products, call'.sku) = 0) =>
            /\ ~result'.success
            /\ result'.outcome = "not_found"
            /\ UNCHANGED <<sellers, products, transactions>> ]_vars

\* remove_stock has been refused for a SKU without a product while another
\* product is in the store
C7_Witness ==
    /\ call.op = "remove_stock" /\ result.outcome = "not_found"
    /\ Len(products) > 0

C9_ModelCalledOnlyAsFallback ==
    (PipelineCall(call) /\ result.model_called) =>
        LET fast == parse_intent_from_text(call.text)
        IN  \/ fast.intent = "UNKNOWN"
            \/ fast.intent = "GENERAL" /\ get_general_response(call.text) = None

\* C10: a pipeline run broadcasts to the dashboard exactly when it changed the
\* stock of a product.
C10_BroadcastIffMutation ==
    [][ PipelineCall(call') => (result'.broadcast <=> products' # products) ]_vars

\* C11: a pipeline run whose message parses to ADD or SHIP with a quantity
\* that is zero, negative or missing (recorded as 0) changes neither the
\* stock of a product nor the transaction log.
C11_NonPositiveQuantityRejected ==
    [][ (PipelineCall(call') /\ call'.action \in {"ADD", "SHIP"} /\ call'.quantity <= 0) =>
            (products' = products /\ transactions' = transactions) ]_vars

\* C12: a pipeline run that read the sender and the text of its message and
\* whose outer except clause then ran has sent the sender a reply.
C12_ExceptionApologised ==
    (PipelineCall(call) /\ result.outcome # "malformed" /\ result.raised) => result.replied

\* C13: a pipeline run on the message "hello" replies with the canned greeting
\* of get_general_response, changes no seller, product or transaction, and
\* broadcasts nothing.
C13_HelloCannedGreeting ==
    [][ (PipelineCall(call') /\ call'.text = msg.hello) =>
            /\ <<result'.reply>> = get_general_response(msg.hello)
            /\ UNCHANGED <<sellers, products, transactions>>
            /\ ~result'.broadcast ]_vars

\* C20: a whatsapp_webhook run that took the ADD branch for an existing
\* product leaves its stock at the prior stock plus the parsed quantity and
\* answers with status "ok".
C20_WhatsappAddOk ==
    [][ (call'.op = "whatsapp_webhook" /\ call'.action = "ADD"
         /\ result'.outcome = "added") =>
            /\ StockIn(products', call'.sku) = StockIn(products, call'.sku) + call'.quantity
            /\ result'.status = "ok" ]_vars

\* C18: when the model gives parse_message no document (no client, the call
\* raises, or the response holds no JSON object), the result has the intent
\* UNKNOWN and no parameters.
C18_SlowPathFailureUnknown ==
    (call.op = "parse_message" /\ call.llm # "json") =>
        (result.ai_data.action = "UNKNOWN" /\ result.ai_data.has = {})

\* C19: whatever the model does, the mapping parse_message returns holds an
\* "action" key.
C19_ParseMessageHasAction ==
    (call.op = "parse_message") => "action" \in result.ai_data.has

\* C14: "Add 10 phone chargers from Acme" is read by the fast path as
\* ADD_STOCK of PHN-CHG-001, quantity 10, seller "Acme"; add_stock given these
\* raises the stock of PHN-CHG-001 by exactly 10 and leaves a seller "Acme",
\* created when there was none.
C14_AddPhoneChargers ==
    [][ /\ (call'.op = "parse_intent_from_text" /\ call'.text = msg.add) =>
              result' = [intent |-> "ADD_STOCK", sku |-> sku_phone_charger,
                         quantity |-> 10, seller |-> name_acme, confidence |-> "high"]
        /\ (call'.op = "add_stock" /\ call'.text = msg.add) =>
              /\ call'.sku = sku_phone_charger
              /\ call'.quantity = 10
              /\ call'.seller = name_acme
              /\ result'.success
              /\ StockIn(products', sku_phone_charger)
                    = StockIn(products, sku_phone_charger) + 10
              /\ get_seller_by_name([sellers |-> sellers'], name_acme) # 0
              /\ Len(sellers') = IF get_seller_by_name([sellers |-> sellers], name_acme) = 0
                                 THEN Len(sellers) + 1 ELSE Len(sellers) ]_vars

C14_Witness ==
    /\ call.op = "add_stock" /\ call.text = msg.add /\ result.success
    /\ StockIn(products, sku_phone_charger) = 10
    /\ StockIn(products, sku_usb_cable) = 3
    /\ Len(sellers) = 1

\* C15: "Ship 5 USB cables to warehouse B" is read by the fast path as
\* SHIP_STOCK of USB-CBL-001, quantity 5, destination "warehouse B"; with a
\* stock of 3 remove_stock fails with insufficient stock and the stock stays 3.
C15_ShipUsbCables ==
    [][ /\ (call'.op = "parse_intent_from_text" /\ call'.text = msg.ship) =>
              result' = [intent |-> "SHIP_STOCK", sku |-> sku_usb_cable,
                         quantity |-> 5, destination |-> warehouse_b,
                         confidence |-> "high"]
        /\ (call'.op = "remove_stock" /\ call'.text = msg.ship
              /\ StockIn(products, sku_usb_cable) = 3) =>
              /\ call'.sku = sku_usb_cable
              /\ call'.quantity = 5
              /\ call'.destination = warehouse_b
              /\ ~result'.success
              /\ result'.outcome = "insufficient"
              /\ StockIn(products', sku_usb_cable) = 3 ]_vars

\* The categories in the order of their priority
IntentPriority == <<"ADD_STOCK", "SHIP_STOCK", "CHECK_STOCK", "GENERAL">>

\* The categories that have a keyword among the words
KeywordCategories(words) ==
    {c \in {"ADD_STOCK", "SHIP_STOCK", "CHECK_STOCK", "GENERAL"} :
        \/ c = "ADD_STOCK" /\ \E i \in 1..Len(words) :
              \/ words[i] = Words.add
              \/ i < Len(words) /\ words[i] = Words.new /\ words[i + 1] = Words.stock
        \/ c = "SHIP_STOCK" /\ \E i \in 1..Len(words) : words[i] = Words.ship
        \/ c = "CHECK_STOCK" /\ \E i \in 1..Len(words) : words[i] = Words.stock
        \/ c = "GENERAL" /\ \E i \in 1..Len(words) :
              words[i] \in {Words.hello, Words.help, Words.thank, Words.thanks, Words.bye}}

\* The first category of the priority order among cats, UNKNOWN without one
FirstCategory(cats) ==
    IF cats = {} THEN "UNKNOWN"
    ELSE IntentPriority[First({k \in 1..Len(IntentPriority) : IntentPriority[k] \in cats})]

\* C16: parse_intent_from_text gives a text the first category, in the order
\* ADD_STOCK, SHIP_STOCK, CHECK_STOCK, GENERAL, that has a keyword in it, and
\* UNKNOWN when none has: a text with an ADD and a SHIP keyword is ADD_STOCK.
C16_IntentPriority ==
    (call.op = "parse_intent_from_text") =>
        result.intent = FirstCategory(KeywordCategories(call.words))

C16_Witness ==
    /\ call.op = "parse_intent_from_text"
    /\ call.words = <<Words.ship, Words.hello, Words.add>>
    /\ result.intent = "ADD_STOCK"

\* The X of a token that is an explicit mention
MentionOf(token) ==
    IF token = Tokens.mention THEN <<"a", "b", "-", "1">>
    ELSE <<"c", "d", "-", "2">>

\* The positions of the tokens of a kind
TokensAmong(words, kind) == {i \in 1..Len(words) : words[i] \in kind}

\* C17: extract_sku_from_text returns the result of the first of its tiers
\* that matches, in the order explicit mention, product code, product name:
\* with a mention "sku: X" in the text the result is X upper-cased, whatever
\* codes and product names the text has too; the leftmost mention counts.
C17_SkuTiers ==
    (call.op = "extract_sku_from_text") =>
        LET mentions == TokensAmong(call.words, {Tokens.mention, Tokens.mention_bare})
            codes == TokensAmong(call.words, {Tokens.code})
        IN  result.sku =
                IF mentions # {} THEN upper(MentionOf(call.words[First(mentions)]))
                ELSE IF codes # {} THEN upper(Tokens.code)
                ELSE IF TokensAmong(call.words, {Tokens.phone_charger}) # {}
                THEN sku_phone_charger
                ELSE IF TokensAmong(call.words, {Tokens.usb_cable}) # {}
                THEN sku_usb_cable
                ELSE None

C17_Witness ==
    /\ call.op = "extract_sku_from_text"
    /\ call.words = <<Tokens.code, Tokens.phone_charger, Tokens.mention>>
    /\ result.sku = <<"A", "B", "-", "1">>

\* The row number of the seller of a name (whatever the case) in table S, 0
\* without one
SellerIn(S, name) == First({i \in 1..Len(S) : lower(S[i].name) = lower(name)})

\* C21: after a successful add_stock(sku, q, seller_name) with a seller named,
\* the product whose stock was raised belongs to the seller of that name.
C21_ProductUnderNamedSeller ==
    [][ (call'.op = "add_stock" /\ result'.success /\ call'.seller \notin {None, <<>>}) =>
            /\ ProductIn(products', call'.sku) # 0
            /\ products'[ProductIn(products', call'.sku)].seller_id
                    = SellerIn(sellers', call'.seller) ]_vars

C23_SkuUniqueWithinSeller ==
    \A i, j \in 1..Len(products) :
        (products[i].sku = products[j].sku /\ products[i].seller_id = products[j].seller_id)
            => i = j

\* C24: add_stock and remove_stock are not serialized across their read and
\* their write: the update of a call stores the stock the call read, changed
\* by its quantity, whatever the row holds by then, and the call goes on to
\* record its transaction and report success; so the change of another call
\* made in between is lost.
C24_WritesWhatItRead ==
    [][ \A s \in 1..NumSessions :
          /\ (sessions[s].pc = "update" /\ sessions'[s].pc = "log") =>
                products'[sessions[s].product].current_stock =
                    IF sessions[s].op = "add_stock"
                    THEN sessions[s].stock + sessions[s].quantity
                    ELSE sessions[s].stock - sessions[s].quantity
          /\ (sessions[s].pc = "log" /\ sessions'[s].pc = "done") =>
                /\ sessions'[s].success
                /\ Len(transactions') = Len(transactions) + 1 ]_vars

\* With a stock of 1 an add_stock and a remove_stock of 1 both read 1 and both
\* succeed: either order leaves 1, the stock is 0 and the ledger has all
\* three rows
C24_Witness ==
    /\ sessions[1].op = "add_stock" /\ sessions[2].op = "remove_stock"
    /\ \A s \in {1, 2} : sessions[s].pc = "done" /\ sessions[s].success
                         /\ sessions[s].product = 1 /\ sessions[s].stock = 1
    /\ Len(products) = 1 /\ Len(transactions) = 3
    /\ products[1].current_stock = 0
    /\ LedgerSum(transactions, 1, "INBOUND", 3) - LedgerSum(transactions, 1, "OUTBOUND", 3) = 1

\* C29: with add_stock and remove_stock calls of positive quantities running
\* at once on a product, each reading the stock, checking the guard and
\* writing the value it computed, no current_stock is ever negative, nor is a
\* value a call is about to write.
C29_ConcurrentNonNegative ==
    /\ \A i \in 1..Len(products) : products[i].current_stock >= 0
    /\ \A s \in 1..NumSessions :
          (sessions[s].pc = "update" /\ sessions[s].op = "remove_stock") =>
              sessions[s].stock - sessions[s].quantity >= 0

\* Two remove_stock calls of 1 that both read the stock 1 and both succeeded
C29_Witness ==
    /\ \A s \in {1, 2} : sessions[s].op = "remove_stock" /\ sessions[s].pc = "done"
                         /\ sessions[s].success /\ sessions[s].stock = 1
                         /\ sessions[s].product = 1
    /\ products[1].current_stock = 0

\* C27: when a broadcast is over, every listener that was connected when it
\* began and is connected still has received the event, whatever happened to
\* the other listeners meanwhile, and no listener that connected later has.
C27_BroadcastReachesConnected ==
    (manager.status \in {"done", "raised"}) =>
        /\ \A ws \in manager.present :
              (ws \notin manager.closed /\ ws \notin manager.left) => ws \in manager.received
        /\ manager.received \subseteq manager.present

\* C28: a whatsapp_webhook run that answers with status "error" has changed
\* neither the stock of a product nor the transaction log, and a run that
\* changed the stock of a product answers with status "ok", has sent a reply
\* and has logged it as an outbound Conversation row.
C28_WhatsappErrorCommitsNothing ==
    [][ (call'.op = "whatsapp_webhook") =>
            /\ (result'.status = "error") =>
                    (products' = products /\ transactions' = transactions)
            /\ (products' # products) =>
                    /\ result'.status = "ok"
                    /\ result'.replied
                    /\ Len(conversations') > Len(conversations)
                    /\ conversations'[Len(conversations')].direction = "out" ]_vars

\* The same run with no Conversation write failing
LogsWritten(request) ==
    [request EXCEPT !.env.in_fail = FALSE, !.env.out_fail = FALSE]

\* Two runs that differ in nothing but the Conversation rows
SameButLog(r, r0) ==
    /\ r.store = r0.store
    /\ r.status = r0.status
    /\ r.outcome = r0.outcome
    /\ r.raised = r0.raised
    /\ r.replied = r0.replied
    /\ r.reply = r0.reply
    /\ r.broadcast = r0.broadcast

\* C25: in every state, a webhook run whose inbound or outbound Conversation
\* write fails does what the same run does when both are written: the same
\* stock and transactions are committed, the same reply is sent and the same
\* response is returned; only the Conversation rows differ.
C25_LogFailureNeverAborts ==
    \A request \in LogFaultRequests :
        /\ SameButLog(whatsapp_webhook(Store, conversations, request.ok, request.text,
                                       request.env),
                      whatsapp_webhook(Store, conversations, request.ok, request.text,
                                       LogsWritten(request).env))
        /\ SameButLog(twilio_webhook(Store, conversations, request.ok, request.text,
                                     request.env),
                      twilio_webhook(Store, conversations, request.ok, request.text,
                                     LogsWritten(request).env))

\* a twilio_webhook run added stock and replied while neither of its
\* Conversation rows could be written
C25_Witness ==
    /\ call.op = "twilio_webhook"
    /\ result.outcome = "added"
    /\ result.replied
    /\ result.status = "xml"
    /\ conversations = <<>>
    /\ StockIn(products, call.sku) > 1

\* The canned reply of the first keyword of general_patterns among the words
KeywordResponse(words) ==
    LET has(w) == \E i \in 1..Len(words) : words[i] = w
    IN  IF has(Words.hello) THEN <<"greeting">>
        ELSE IF has(Words.help) THEN <<"help">>
        ELSE IF has(Words.thank) \/ has(Words.thanks) THEN <<"thanks">>
        ELSE IF has(Words.bye) THEN <<"farewell">>
        ELSE None

\* C26: for every text parse_intent_from_text classifies as GENERAL,
\* get_general_response returns a reply, and it is the reply of the keyword
\* that matched: greeting, help, thanks or farewell.
C26_GeneralHasCannedResponse ==
    (call.op = "get_general_response") =>
        /\ result.response # None
        /\ result.response = KeywordResponse(call.words)

\* C30: for a text classified as ADD_STOCK or SHIP_STOCK that holds a product
\* code of the shape LLL-LLL-DDD and no number of its own, extract_quantity
\* finds no quantity.
C30_CodeDigitsAreNoQuantity ==
    (/\ call.op = "parse_intent_from_text"
     /\ result.intent \in {"ADD_STOCK", "SHIP_STOCK"}
     /\ TokensAmong(call.words, {Tokens.code}) # {}
     /\ TokensAmong(call.words, {Words.five}) = {}) =>
        \A k \in 1..7 : QuantityStarts(call.text)[k] = 0

====
